---- MODULE Spec2Model ----
(***************************************************************************)
(* Job state machines, schedulers, runs and coverage reports of the        *)
(* coverage improver.                                                      *)
(*                                                                         *)
(* SpecJobEntities and SpecCoverageFile drive the domain entities          *)
(* (ImprovementJob with JobStatus and AnalysisJob; CoverageFile) with      *)
(* arbitrary call sequences.  Spec is the improvement side of the running  *)
(* system: the persisted tables, StartImprovementJob, CancelJob, the timer *)
(* of JobOrchestrator and its executeJob runs in flight.  SpecAnalysis is  *)
(* the analysis side: the analyze request, the timer of                    *)
(* AnalysisJobProcessor and its executeJob runs.  SpecRun is one           *)
(* improvement job in every environment of its working directory (what    *)
(* the AI and the install write, what git answers), SpecServices the two   *)
(* polling services with one of them in use, SpecSystem the two at work   *)
(* on the same tables, SpecJobProcessor the working directory of           *)
(* JobProcessor.executeImprovementJob.  SpecParser calls CoverageParser    *)
(* on coverage files in both formats and reconciles the report with the    *)
(* scan of a source tree.  SpecScheduler is the queue with every row in    *)
(* use, SpecRetries one job under each setting of AI_MAX_RETRIES,          *)
(* SpecPolling the loops of startProcessing and stopProcessing, and        *)
(* FairSystem is SpecSystem with timers that keep firing and external      *)
(* calls that settle.                                                      *)
(*                                                                         *)
(* Granularity of Spec.  The repositories are better-sqlite3 statements    *)
(* wrapped in async methods: their bodies run synchronously, so awaiting   *)
(* them only yields to the microtask queue.  Timer callbacks and HTTP      *)
(* handlers are macrotasks; they cannot run between two such awaits.  A    *)
(* run is therefore suspended only at the external calls (clone, install,  *)
(* branch, AI, test run, push, pull request, cleanup), and every action of *)
(* Spec is the code between two of those suspension points.                *)
(***************************************************************************)
EXTENDS Integers, Naturals, Sequences, FiniteSets, TLC

\* ---------------------------------------------------------------- bounds
NumRepos == 2
NumFiles == 3
MaxJobs == 2
\* rows of the improvement_jobs table; the queue of SpecScheduler fills them all
MaxQueued == 3
MaxAnalysisJobs == 2
\* AI_MAX_RETRIES, the configured number of attempts of one run ('3' when unset)
maxRetries == 2

\* ------------------------------------------------------- program constants
\* COVERAGE_THRESHOLD when unset
coverageThreshold == 80

Repos == 1..NumRepos
FileIds == 1..NumFiles
JobIds == 1..MaxQueued
\* the ids handed out where MaxJobs jobs are requested
FirstJobIds == 1..MaxJobs
AnalysisJobIds == 1..MaxAnalysisJobs

NULL == "null"
NoError == "none"
UnknownId == 0

JobStatusValue == {"pending", "running", "completed", "failed"}
CoverageFileStatus == {"pending", "improving", "improved"}

\* error messages (by their fixed prefix); Constraint is the SqliteError of a
\* statement that violates a constraint of the schema
Err ==
  [InvalidTransition |-> "Invalid status transition",
   NotRunning |-> "Cannot update progress for non-running job",
   ProgressRange |-> "Progress must be between 0 and 100",
   CannotStart |-> "Cannot start job",
   CannotComplete |-> "Cannot complete job",
   CannotFail |-> "Cannot fail job",
   CannotImprove |-> "Cannot start improving file",
   CannotMarkImproved |-> "Cannot mark as improved",
   CannotCancel |-> "Cannot cancel job",
   FileNotFound |-> "Coverage file not found",
   WrongRepository |-> "File does not belong to the specified repository",
   JobInProgress |-> "A job is already in progress for this file",
   ExternalCall |-> "external call failed",
   SourceNotFound |-> "Source file not found",
   NoTestFile |-> "AI failed to create test file after all attempts",
   InvalidTestContent |-> "AI failed to generate valid test content after all attempts",
   NoTestGenerated |-> "No test file was generated",
   InvalidFiles |-> "Invalid files modified (only test files allowed)",
   InvalidPrUrl |-> "Invalid GitHub PR URL format",
   JobNotFound |-> "Job not found",
   Constraint |-> "SQLITE_CONSTRAINT"]
MsgCancelled == "Job cancelled by user"

VARIABLES
  \* the entity specifications
  ijob,             \* an ImprovementJob object
  ajob,             \* an AnalysisJob object
  cfile,            \* a CoverageFile object
  call,             \* the last method call made on one of them and its outcome
  \* Spec
  improvement_jobs, \* table improvement_jobs: JobIds -> row or NULL
  analysis_jobs,    \* table analysis_jobs: AnalysisJobIds -> row or NULL
  coverage_files,   \* table coverage_files: FileIds -> row
  run,              \* JobOrchestrator.executeJob runs in flight: JobIds -> frame or NULL
  arun,             \* AnalysisJobProcessor.executeJob runs in flight
  resp              \* the last handler that ran and its outcome

entityVars == <<ijob, ajob, cfile, call>>
systemVars == <<improvement_jobs, analysis_jobs, coverage_files, run, arun, resp>>
vars == <<ijob, ajob, cfile, call, improvement_jobs, analysis_jobs, coverage_files, run, arun, resp>>

\* ================================================================ JobStatus

canTransitionTo_AllowsPendingToFailed(from, to) ==
  \/ from = "pending" /\ to \in {"running", "failed"}
  \/ from = "running" /\ to \in {"completed", "failed"}

\* JobStatus.canTransitionTo: the transitions table
canTransitionTo(from, to) ==
  LET transitions == [s \in JobStatusValue |->
        CASE s = "pending" -> {"running"}
          [] s = "running" -> {"completed", "failed"}
          [] s = "completed" -> {}
          [] s = "failed" -> {}]
  IN to \in transitions[from]

\* =========================================================== ImprovementJob
\* Every method returns [err, job]: err = NoError and the mutated object, or
\* the message of the Error it throws and the object as the throw left it.

ImprovementJob_create(repositoryId, fileId) ==
  [repositoryId |-> repositoryId, fileId |-> fileId,
   status |-> "pending", progress |-> 0, prUrl |-> NULL, error |-> NULL]

transitionTo_Unchecked(job, newStatus) ==
  [err |-> NoError, job |-> [job EXCEPT !.status = newStatus]]

transitionTo(job, newStatus) ==
  IF ~canTransitionTo(job.status, newStatus)
    THEN [err |-> Err.InvalidTransition, job |-> job]
    ELSE [err |-> NoError, job |-> [job EXCEPT !.status = newStatus]]

ImprovementJob_start(job) ==
  LET t == transitionTo(job, "running")
  IN IF t.err # NoError THEN t
     ELSE [err |-> NoError, job |-> [t.job EXCEPT !.progress = 0]]

ImprovementJob_updateProgress_NoRangeCheck(job, progress) ==
  IF job.status # "running" THEN [err |-> Err.NotRunning, job |-> job]
  ELSE [err |-> NoError, job |-> [job EXCEPT !.progress = progress]]

ImprovementJob_updateProgress(job, progress) ==
  IF job.status # "running" THEN [err |-> Err.NotRunning, job |-> job]
  ELSE IF progress < 0 \/ progress > 100 THEN [err |-> Err.ProgressRange, job |-> job]
  ELSE [err |-> NoError, job |-> [job EXCEPT !.progress = progress]]

ImprovementJob_complete(job, prUrl) ==
  LET t == transitionTo(job, "completed")
  IN IF t.err # NoError THEN t
     ELSE [err |-> NoError, job |-> [t.job EXCEPT !.prUrl = prUrl, !.progress = 100]]

ImprovementJob_fail(job, error) ==
  LET t == transitionTo(job, "failed")
  IN IF t.err # NoError THEN t
     ELSE [err |-> NoError, job |-> [t.job EXCEPT !.error = error]]

\* ============================================================== AnalysisJob

AnalysisJob_create(repositoryId) ==
  [repositoryId |-> repositoryId, status |-> "pending", progress |-> 0, error |-> NULL,
   filesFound |-> 0, filesBelowThreshold |-> 0]

AnalysisJob_start(job) ==
  IF job.status # "pending" THEN [err |-> Err.CannotStart, job |-> job]
  ELSE [err |-> NoError, job |-> [job EXCEPT !.status = "running", !.progress = 0]]

AnalysisJob_updateProgress(job, progress) ==
  IF job.status # "running" THEN [err |-> Err.NotRunning, job |-> job]
  ELSE IF progress < 0 \/ progress > 100 THEN [err |-> Err.ProgressRange, job |-> job]
  ELSE [err |-> NoError, job |-> [job EXCEPT !.progress = progress]]

AnalysisJob_complete_FromAnyStatus(job, filesFound, filesBelowThreshold) ==
  [err |-> NoError, job |-> [job EXCEPT !.status = "completed", !.progress = 100,
                                         !.filesFound = filesFound,
                                         !.filesBelowThreshold = filesBelowThreshold]]

AnalysisJob_complete(job, filesFound, filesBelowThreshold) ==
  IF job.status # "running" THEN [err |-> Err.CannotComplete, job |-> job]
  ELSE [err |-> NoError, job |-> [job EXCEPT !.status = "completed", !.progress = 100,
                                              !.filesFound = filesFound,
                                              !.filesBelowThreshold = filesBelowThreshold]]

AnalysisJob_fail(job, error) ==
  IF job.status # "running" /\ job.status # "pending"
    THEN [err |-> Err.CannotFail, job |-> job]
    ELSE [err |-> NoError, job |-> [job EXCEPT !.status = "failed", !.error = error]]

\* ============================================================= CoverageFile
\* [err, file] as above.  uncoveredLines is kept as the number of lines listed.

CoverageFile_create(repositoryId, coveragePercentage, uncoveredLines) ==
  [repositoryId |-> repositoryId, status |-> "pending",
   coveragePercentage |-> coveragePercentage, uncoveredLines |-> uncoveredLines]

markAsImproving(file) ==
  IF file.status # "pending" THEN [err |-> Err.CannotImprove, file |-> file]
  ELSE [err |-> NoError, file |-> [file EXCEPT !.status = "improving"]]

markAsImproved(file, newCoverage, newUncoveredLines) ==
  IF file.status # "improving" THEN [err |-> Err.CannotMarkImproved, file |-> file]
  ELSE [err |-> NoError, file |-> [file EXCEPT !.coveragePercentage = newCoverage,
                                                !.uncoveredLines = newUncoveredLines,
                                                !.status = "improved"]]

resetToPending(file) == [err |-> NoError, file |-> [file EXCEPT !.status = "pending"]]

updateCoverage(file, coverage, uncoveredLines) ==
  [err |-> NoError, file |-> [file EXCEPT !.coveragePercentage = coverage,
                                          !.uncoveredLines = uncoveredLines]]

\* ============================================================== persistence
\* Rows carry the columns the code reads; an id with no row maps to NoJobRow,
\* NoAnalysisRow or NoFileRow.  Ids are handed out in creation order, so
\* ORDER BY created_at ASC is the order of the ids.

NoJobRow == [repository_id |-> 0, file_id |-> 0, status |-> "absent", progress |-> 0,
             pr_url |-> NULL, error |-> NULL]
NoAnalysisRow == [repository_id |-> 0, status |-> "absent", progress |-> 0, error |-> NULL,
                  files_found |-> 0, files_below_threshold |-> 0]
NoFileRow == [repository_id |-> 0, status |-> "absent", coverage_percentage |-> 0,
              uncovered_lines |-> 0]

Min(S) == CHOOSE x \in S : \A y \in S : x <= y

\* SqliteJobRepository.mapToEntity: ImprovementJob.reconstitute of the row,
\* whose constructor takes props.prUrl || null and props.error || null
JobRepository_mapToEntity(row) ==
  [repositoryId |-> row.repository_id, fileId |-> row.file_id, status |-> row.status,
   progress |-> row.progress, prUrl |-> row.pr_url,
   error |-> IF row.error = "" THEN NULL ELSE row.error]

\* SqliteJobRepository.save: INSERT ... ON CONFLICT(id) DO UPDATE SET status,
\* progress, pr_url, error
JobRepository_save(table, id, job) ==
  IF table[id].status = "absent"
    THEN [table EXCEPT ![id] = [repository_id |-> job.repositoryId, file_id |-> job.fileId,
                                status |-> job.status, progress |-> job.progress,
                                pr_url |-> job.prUrl, error |-> job.error]]
    ELSE [table EXCEPT ![id] = [@ EXCEPT !.status = job.status, !.progress = job.progress,
                                         !.pr_url = job.prUrl, !.error = job.error]]

JobRepository_findById(table, id) == IF id \in DOMAIN table THEN table[id] ELSE NoJobRow

JobRepository_findPending_OrRunning(table) ==
  LET pending == {j \in DOMAIN table : table[j].status \in {"pending", "running"}}
  IN IF pending = {} THEN UnknownId ELSE Min(pending)

\* SqliteJobRepository.findPending(1): the id of the oldest pending row, or UnknownId
JobRepository_findPending(table) ==
  LET pending == {j \in DOMAIN table : table[j].status = "pending"}
  IN IF pending = {} THEN UnknownId ELSE Min(pending)

JobRepository_findByRepositoryId(table, repositoryId) ==
  {j \in DOMAIN table : table[j].status # "absent" /\ table[j].repository_id = repositoryId}

JobRepository_findByFileId(table, fileId) ==
  {j \in DOMAIN table : table[j].status # "absent" /\ table[j].file_id = fileId}

\* SqliteCoverageFileRepository.mapToEntity
CoverageFileRepository_mapToEntity(row) ==
  [repositoryId |-> row.repository_id, status |-> row.status,
   coveragePercentage |-> row.coverage_percentage, uncoveredLines |-> row.uncovered_lines]

\* SqliteCoverageFileRepository.save: INSERT ... ON CONFLICT(id) DO UPDATE SET
\* coverage_percentage, uncovered_lines, status
CoverageFileRepository_save(table, id, file) ==
  IF table[id].status = "absent"
    THEN [table EXCEPT ![id] = [repository_id |-> file.repositoryId, status |-> file.status,
                                coverage_percentage |-> file.coveragePercentage,
                                uncovered_lines |-> file.uncoveredLines]]
    ELSE [table EXCEPT ![id] = [@ EXCEPT !.status = file.status,
                                         !.coverage_percentage = file.coveragePercentage,
                                         !.uncovered_lines = file.uncoveredLines]]

CoverageFileRepository_findById(table, id) == IF id \in DOMAIN table THEN table[id] ELSE NoFileRow

\* improvement_jobs.file_id REFERENCES coverage_files(id): the INSERT of
\* SqliteJobRepository.save fails when the row of the job is gone (deleted
\* with the row of its file) and the row of its file has not come back
JobRepository_saveThrows(table, files, id, job) ==
  /\ table[id].status = "absent"
  /\ CoverageFileRepository_findById(files, job.fileId).status = "absent"

\* SqliteAnalysisJobRepository.mapToEntity
AnalysisJobRepository_mapToEntity(row) ==
  [repositoryId |-> row.repository_id, status |-> row.status, progress |-> row.progress,
   error |-> row.error, filesFound |-> row.files_found,
   filesBelowThreshold |-> row.files_below_threshold]

\* SqliteAnalysisJobRepository.save
AnalysisJobRepository_save(table, id, job) ==
  IF table[id].status = "absent"
    THEN [table EXCEPT ![id] = [repository_id |-> job.repositoryId, status |-> job.status,
                                progress |-> job.progress, error |-> job.error,
                                files_found |-> job.filesFound,
                                files_below_threshold |-> job.filesBelowThreshold]]
    ELSE [table EXCEPT ![id] = [@ EXCEPT !.status = job.status, !.progress = job.progress,
                                         !.error = job.error, !.files_found = job.filesFound,
                                         !.files_below_threshold = job.filesBelowThreshold]]

AnalysisJobRepository_findPending(table) ==
  LET pending == {a \in DOMAIN table : table[a].status = "pending"}
  IN IF pending = {} THEN UnknownId ELSE Min(pending)

AnalysisJobRepository_findRunning(table) == {a \in DOMAIN table : table[a].status = "running"}

AnalysisJobRepository_findByRepositoryId(table, repositoryId) ==
  {a \in DOMAIN table : table[a].status # "absent" /\ table[a].repository_id = repositoryId}

\* ================================================================== frames
\* A frame is the local state of one executeJob run that is suspended at the
\* external call pc: the job and coverageFile objects it loaded, and the loop
\* variables.  result is "returned" or "rejected" once the try/catch is left.
\* The working directory of the run is in the frame as well: changed is what
\* git reports as differing from HEAD, by kind of path
\*   "test"       a path that isTestFile accepts
\*   "tracked"    a tracked non-test file modified in the working tree
\*   "untracked"  a new non-test file git does not track
\*   "staged"     a non-test file whose change "git checkout --" keeps (the
\*                change is in the index) and "rm -f" is not tried on
\* aiWrote is the kinds the AI calls of the run have written, request the
\* argument of the generateTests call in flight, measurement the entry of the
\* target file in the last report that listed it and the attempt that report
\* was made in, commitFiles the files argument of commitAndPush.  emitted is
\* the progress values passed to the progress callback, in order, by the
\* last step of the run that passed any, and inOrder whether all values of
\* the run so far were in 0..100 and none lower than the one before it.
\* maxRetries is the field of that name, set by the constructor.
FileKinds == {"test", "tracked", "untracked", "staged"}

NoRequest == [sent |-> FALSE, uncoveredLines |-> 0]
NoMeasurement == [taken |-> FALSE, attempt |-> 0, uncoveredLines |-> 0]

NoFile == CoverageFileRepository_mapToEntity(NoFileRow)

NoRun == [pc |-> "idle", job |-> JobRepository_mapToEntity(NoJobRow), coverageFile |-> NoFile,
          attempt |-> 0, currentCoverage |-> 0, generatedTestPath |-> FALSE, result |-> "none",
          currentUncoveredLines |-> 0, testFilePath |-> FALSE, changed |-> {}, aiWrote |-> {},
          request |-> NoRequest, measurement |-> NoMeasurement, commitFiles |-> {},
          emitted |-> <<>>, inOrder |-> TRUE, maxRetries |-> maxRetries]

NoAnalysisRun == [pc |-> "idle", job |-> AnalysisJobRepository_mapToEntity(NoAnalysisRow),
                  result |-> "none"]

NoResp == [op |-> "none", id |-> UnknownId, err |-> NoError]

Responded(op, id, err) == [op |-> op, id |-> id, err |-> err]

\* the files an earlier analysis left: file f belongs to repository RepoOfFile(f)
RepoOfFile(f) == ((f - 1) % NumRepos) + 1
\* the row an earlier analysis left for file f: below the threshold, pending
AnalysedFileRow(f) ==
  [repository_id |-> RepoOfFile(f), status |-> "pending",
   coverage_percentage |-> 40, uncovered_lines |-> 2]

\* ====================================================== StartImprovementJob
\* StartImprovementJobCommand.execute, one HTTP request.
StartImprovementJob(repositoryId, fileId) ==
  LET row == CoverageFileRepository_findById(coverage_files, fileId)
      coverageFile == CoverageFileRepository_mapToEntity(row)
      existingJobs == JobRepository_findByFileId(improvement_jobs, fileId)
      runningJob == {j \in existingJobs : improvement_jobs[j].status \in {"pending", "running"}}
      free == {j \in JobIds : improvement_jobs[j].status = "absent"}
      id == Min(free)
      job == ImprovementJob_create(repositoryId, fileId)
      m == markAsImproving(coverageFile)
  IN
  /\ free # {}
  /\ IF row.status = "absent" THEN
       /\ resp' = Responded("StartImprovementJob", UnknownId, Err.FileNotFound)
       /\ UNCHANGED <<improvement_jobs, coverage_files>>
     ELSE IF coverageFile.repositoryId # repositoryId THEN
       /\ resp' = Responded("StartImprovementJob", UnknownId, Err.WrongRepository)
       /\ UNCHANGED <<improvement_jobs, coverage_files>>
     ELSE IF runningJob # {} THEN
       /\ resp' = Responded("StartImprovementJob", UnknownId, Err.JobInProgress)
       /\ UNCHANGED <<improvement_jobs, coverage_files>>
     ELSE
       /\ improvement_jobs' = JobRepository_save(improvement_jobs, id, job)
       /\ IF m.err # NoError
            THEN /\ resp' = Responded("StartImprovementJob", id, m.err)
                 /\ UNCHANGED coverage_files
            ELSE /\ coverage_files' = CoverageFileRepository_save(coverage_files, fileId, m.file)
                 /\ resp' = Responded("StartImprovementJob", id, NoError)
  /\ UNCHANGED <<analysis_jobs, run, arun>>
  /\ UNCHANGED entityVars

\* ================================================================ CancelJob
\* CancelJobCommand.execute, one HTTP request.
CancelJob(jobId) ==
  LET row == JobRepository_findById(improvement_jobs, jobId)
      job == JobRepository_mapToEntity(row)
      f == ImprovementJob_fail(job, MsgCancelled)
      fileRow == CoverageFileRepository_findById(coverage_files, job.fileId)
      coverageFile == CoverageFileRepository_mapToEntity(fileRow)
  IN
  /\ IF row.status = "absent" THEN
       /\ resp' = Responded("CancelJob", jobId, Err.JobNotFound)
       /\ UNCHANGED <<improvement_jobs, coverage_files>>
     ELSE IF job.status = "completed" \/ job.status = "failed" THEN
       /\ resp' = Responded("CancelJob", jobId, Err.CannotCancel)
       /\ UNCHANGED <<improvement_jobs, coverage_files>>
     ELSE IF f.err # NoError THEN
       /\ resp' = Responded("CancelJob", jobId, f.err)
       /\ UNCHANGED <<improvement_jobs, coverage_files>>
     ELSE
       /\ improvement_jobs' = JobRepository_save(improvement_jobs, jobId, f.job)
       /\ coverage_files' =
            IF fileRow.status = "absent" THEN coverage_files
            ELSE CoverageFileRepository_save(coverage_files, job.fileId,
                                             resetToPending(coverageFile).file)
       /\ resp' = Responded("CancelJob", jobId, NoError)
  /\ UNCHANGED <<analysis_jobs, run, arun>>
  /\ UNCHANGED entityVars

\* ================================================ the entity specifications
\* Arguments the callers pass, with out-of-range values next to them.
ProgressInputs == {-1, 0, 50, 100, 101}
PrUrls == {"https://github.com/o/r/pull/1", "https://github.com/o/r/pull/2"}
\* error.message of what a run catches; an Error made without a message has ''
ErrorMessages == {"clone failed", MsgCancelled, ""}
CoverageInputs == {0, 40, 85, 100}
UncoveredInputs == {0, 1, 2}
FileCountInputs == {0, 2}

\* pre is the status of the object when the call was made
NoCall == [obj |-> "none", op |-> "none", pre |-> "none", p |-> 0,
           from |-> "pending", to |-> "pending", ret |-> FALSE, err |-> NoError]

Called(obj, op, pre, err) == [NoCall EXCEPT !.obj = obj, !.op = op, !.pre = pre, !.err = err]

\* The state after construction: one entity of each kind for the entity
\* specifications, empty job tables, the analysed files, no run in flight.
Init ==
  /\ ijob = ImprovementJob_create(1, 1)
  /\ ajob = AnalysisJob_create(1)
  /\ cfile = CoverageFile_create(1, 40, 2)
  /\ call = NoCall
  /\ improvement_jobs = [j \in JobIds |-> NoJobRow]
  /\ analysis_jobs = [a \in AnalysisJobIds |-> NoAnalysisRow]
  /\ coverage_files = [f \in FileIds |-> AnalysedFileRow(f)]
  /\ run = [j \in JobIds |-> NoRun]
  /\ arun = [a \in AnalysisJobIds |-> NoAnalysisRun]
  /\ resp = NoResp

\* ImprovementJob.create(...)
CallImprovementJobCreate ==
  /\ ijob' = ImprovementJob_create(1, 1)
  /\ call' = Called("ImprovementJob", "create", ijob.status, NoError)
  /\ UNCHANGED <<ajob, cfile>> /\ UNCHANGED systemVars

CallImprovementJobStart ==
  LET r == ImprovementJob_start(ijob) IN
  /\ ijob' = r.job
  /\ call' = Called("ImprovementJob", "start", ijob.status, r.err)
  /\ UNCHANGED <<ajob, cfile>> /\ UNCHANGED systemVars

CallImprovementJobUpdateProgress ==
  \E p \in ProgressInputs :
    LET r == ImprovementJob_updateProgress(ijob, p) IN
    /\ ijob' = r.job
    /\ call' = [Called("ImprovementJob", "updateProgress", ijob.status, r.err) EXCEPT !.p = p]
    /\ UNCHANGED <<ajob, cfile>> /\ UNCHANGED systemVars

CallImprovementJobComplete ==
  \E u \in PrUrls :
    LET r == ImprovementJob_complete(ijob, u) IN
    /\ ijob' = r.job
    /\ call' = Called("ImprovementJob", "complete", ijob.status, r.err)
    /\ UNCHANGED <<ajob, cfile>> /\ UNCHANGED systemVars

CallImprovementJobFail ==
  \E e \in ErrorMessages :
    LET r == ImprovementJob_fail(ijob, e) IN
    /\ ijob' = r.job
    /\ call' = Called("ImprovementJob", "fail", ijob.status, r.err)
    /\ UNCHANGED <<ajob, cfile>> /\ UNCHANGED systemVars

CallAnalysisJobCreate ==
  /\ ajob' = AnalysisJob_create(1)
  /\ call' = Called("AnalysisJob", "create", ajob.status, NoError)
  /\ UNCHANGED <<ijob, cfile>> /\ UNCHANGED systemVars

CallAnalysisJobStart ==
  LET r == AnalysisJob_start(ajob) IN
  /\ ajob' = r.job
  /\ call' = Called("AnalysisJob", "start", ajob.status, r.err)
  /\ UNCHANGED <<ijob, cfile>> /\ UNCHANGED systemVars

CallAnalysisJobUpdateProgress ==
  \E p \in ProgressInputs :
    LET r == AnalysisJob_updateProgress(ajob, p) IN
    /\ ajob' = r.job
    /\ call' = [Called("AnalysisJob", "updateProgress", ajob.status, r.err) EXCEPT !.p = p]
    /\ UNCHANGED <<ijob, cfile>> /\ UNCHANGED systemVars

CallAnalysisJobComplete ==
  \E n \in FileCountInputs : \E b \in {0, n} :
    LET r == AnalysisJob_complete(ajob, n, b) IN
    /\ ajob' = r.job
    /\ call' = Called("AnalysisJob", "complete", ajob.status, r.err)
    /\ UNCHANGED <<ijob, cfile>> /\ UNCHANGED systemVars

CallAnalysisJobFail ==
  \E e \in ErrorMessages :
    LET r == AnalysisJob_fail(ajob, e) IN
    /\ ajob' = r.job
    /\ call' = Called("AnalysisJob", "fail", ajob.status, r.err)
    /\ UNCHANGED <<ijob, cfile>> /\ UNCHANGED systemVars

CallCoverageFileCreate ==
  \E c \in CoverageInputs : \E u \in UncoveredInputs :
    /\ cfile' = CoverageFile_create(1, c, u)
    /\ call' = Called("CoverageFile", "create", cfile.status, NoError)
    /\ UNCHANGED <<ijob, ajob>> /\ UNCHANGED systemVars

CallMarkAsImproving ==
  LET r == markAsImproving(cfile) IN
  /\ cfile' = r.file
  /\ call' = Called("CoverageFile", "markAsImproving", cfile.status, r.err)
  /\ UNCHANGED <<ijob, ajob>> /\ UNCHANGED systemVars

CallMarkAsImproved ==
  \E c \in CoverageInputs : \E u \in UncoveredInputs :
    LET r == markAsImproved(cfile, c, u) IN
    /\ cfile' = r.file
    /\ call' = Called("CoverageFile", "markAsImproved", cfile.status, r.err)
    /\ UNCHANGED <<ijob, ajob>> /\ UNCHANGED systemVars

CallResetToPending ==
  LET r == resetToPending(cfile) IN
  /\ cfile' = r.file
  /\ call' = Called("CoverageFile", "resetToPending", cfile.status, r.err)
  /\ UNCHANGED <<ijob, ajob>> /\ UNCHANGED systemVars

CallUpdateCoverage ==
  \E c \in CoverageInputs : \E u \in UncoveredInputs :
    LET r == updateCoverage(cfile, c, u) IN
    /\ cfile' = r.file
    /\ call' = Called("CoverageFile", "updateCoverage", cfile.status, r.err)
    /\ UNCHANGED <<ijob, ajob>> /\ UNCHANGED systemVars

CallCanTransitionTo ==
  \E a \in JobStatusValue : \E b \in JobStatusValue :
    /\ call' = [Called("JobStatus", "canTransitionTo", a, NoError)
                  EXCEPT !.from = a, !.to = b, !.ret = canTransitionTo(a, b)]
    /\ UNCHANGED <<ijob, ajob, cfile>> /\ UNCHANGED systemVars

\* jobRepo.save(job) and then jobRepo.findById(job.id), for the job of the
\* entity specifications, which has the row 1
CallJobRepositorySaveAndFindById ==
  LET table == JobRepository_save(improvement_jobs, 1, ijob) IN
  /\ improvement_jobs' = table
  /\ call' = [obj |-> "JobRepository", op |-> "save, findById",
              updated |-> improvement_jobs[1].status # "absent", saved |-> ijob,
              found |-> JobRepository_mapToEntity(JobRepository_findById(table, 1))]
  /\ UNCHANGED <<ijob, ajob, cfile, analysis_jobs, coverage_files, run, arun, resp>>

NextJobEntities ==
  \/ CallImprovementJobCreate
  \/ CallJobRepositorySaveAndFindById
  \/ CallImprovementJobStart
  \/ CallImprovementJobUpdateProgress
  \/ CallImprovementJobComplete
  \/ CallImprovementJobFail
  \/ CallCanTransitionTo
  \/ CallAnalysisJobCreate
  \/ CallAnalysisJobStart
  \/ CallAnalysisJobUpdateProgress
  \/ CallAnalysisJobComplete
  \/ CallAnalysisJobFail

\* ------------------------------------------------------ CoveragePercentage
\* A number is [kind, milli]: NaN, Infinity, -Infinity, or a finite number in
\* thousandths (75.555 is 75555).  Math.round rounds halves up.
Finite(milli) == [kind |-> "finite", milli |-> milli]
NotANumber == [kind |-> "NaN", milli |-> 0]
Infinite(sign) == [kind |-> IF sign < 0 THEN "-Infinity" ELSE "Infinity", milli |-> 0]

\* value < bound and value > bound of JavaScript, bound a finite number
LessThan(value, milli) ==
  value.kind = "-Infinity" \/ (value.kind = "finite" /\ value.milli < milli)
GreaterThan(value, milli) ==
  value.kind = "Infinity" \/ (value.kind = "finite" /\ value.milli > milli)

CoveragePercentage_create_NoFiniteCheck(value) ==
  IF LessThan(value, 0) \/ GreaterThan(value, 100000)
    THEN [err |-> "Coverage percentage must be between 0 and 100", created |-> FALSE]
  ELSE [err |-> NoError, created |-> TRUE,
        value |-> IF value.kind = "finite" THEN Finite(10 * ((value.milli + 5) \div 10))
                  ELSE value]

\* CoveragePercentage.create
CoveragePercentage_create(value) ==
  IF LessThan(value, 0) \/ GreaterThan(value, 100000)
    THEN [err |-> "Coverage percentage must be between 0 and 100", created |-> FALSE]
  ELSE IF value.kind # "finite"
    THEN [err |-> "Coverage percentage must be a finite number", created |-> FALSE]
  ELSE [err |-> NoError, created |-> TRUE,
        value |-> Finite(10 * ((value.milli + 5) \div 10))]

\* the numbers CoveragePercentage.create is called with
PercentageInputs ==
  {NotANumber, Infinite(1), Infinite(-1)}
    \cup {Finite(m) : m \in (-15..15) \cup (75550..75560) \cup (99985..100015)
                              \cup {-1000, 101000}}

CallCoveragePercentageCreate ==
  \E value \in PercentageInputs :
    /\ call' = [obj |-> "CoveragePercentage", op |-> "create", p |-> value,
                ret |-> CoveragePercentage_create(value)]
    /\ UNCHANGED <<ijob, ajob, cfile>> /\ UNCHANGED systemVars

NextCoverageFile ==
  \/ CallCoverageFileCreate
  \/ CallMarkAsImproving
  \/ CallMarkAsImproved
  \/ CallResetToPending
  \/ CallUpdateCoverage
  \/ CallCoveragePercentageCreate

SpecJobEntities == Init /\ [][NextJobEntities]_vars
SpecCoverageFile == Init /\ [][NextCoverageFile]_vars

\* ========================================================== JobOrchestrator
\* What a coverage run can report for the target file, and the total it
\* reports when the target file is not matched.
Measurements == {[percentage |-> 60, uncoveredLines |-> 1],
                 [percentage |-> 85, uncoveredLines |-> 0]}
TotalCoverages == {50, 90}
CreatedPrUrl == "https://github.com/o/r/pull/1"
InvalidPrUrl == "not a pull request url"

\* GitHubPrUrl.create
GitHubPrUrl_create(value) ==
  IF value \in PrUrls THEN [err |-> NoError, url |-> value]
  ELSE [err |-> Err.InvalidPrUrl, url |-> NULL]

\* A step of executeJob works on st = [jobs, files, fr]: the two tables and
\* the frame of the run.
SuspendedAt(st, pc) == [st EXCEPT !.fr.pc = pc]

\* emitProgress(job.id, progress, message): the callback gets the value, the
\* job object and its row are not touched
emitProgress(st, progress) == [st EXCEPT !.fr.emitted = Append(@, progress)]

\* executeJob, the catch block (and the finally that follows it): job.fail,
\* save, reload the file, resetToPending, save.  job.fail or the save throwing
\* leaves the catch block at once and executeJob rejects.
Catch(id, st, errorMessage) ==
  LET f == ImprovementJob_fail(st.fr.job, errorMessage)
      fileRow == CoverageFileRepository_findById(st.files, f.job.fileId)
      coverageFile == CoverageFileRepository_mapToEntity(fileRow)
  IN
  IF f.err # NoError
    THEN [st EXCEPT !.fr.pc = "cleanupWorkDir", !.fr.result = "rejected"]
    ELSE IF JobRepository_saveThrows(st.jobs, st.files, id, f.job)
      THEN [st EXCEPT !.fr.job = f.job, !.fr.pc = "cleanupWorkDir", !.fr.result = "rejected"]
    ELSE [jobs |-> JobRepository_save(st.jobs, id, f.job),
          files |-> IF fileRow.status = "absent" THEN st.files
                    ELSE CoverageFileRepository_save(st.files, f.job.fileId,
                                                     resetToPending(coverageFile).file),
          fr |-> [st.fr EXCEPT !.job = f.job, !.pc = "cleanupWorkDir", !.result = "returned",
                               !.emitted = Append(@, 0)]]

\* isTestFile, on the kind of a path
isTestFile(filePath) == filePath = "test"

\* getChangedFiles: the three git commands list what differs from HEAD; when
\* one of them throws (gitOk = FALSE) the catch returns the empty list
getChangedFiles(changed, gitOk) == IF gitOk THEN changed ELSE {}

\* resetNonTestFiles: what differs from HEAD afterwards.  "git checkout --"
\* reverts a tracked file, "rm -f" removes an untracked one; a path neither
\* command restores stays changed, and so does everything when the list of
\* changed files could not be read.
resetNonTestFiles(changed, gitOk) ==
  LET nonTestFiles == {f \in getChangedFiles(changed, gitOk) : ~isTestFile(f)}
  IN changed \ (nonTestFiles \cap {"tracked", "untracked"})

\* what git answers in one step of executeJob: to getChangedFiles after the
\* AI call, inside resetNonTestFiles, and in the validation of the diff
GitWorks == [status |-> TRUE, reset |-> TRUE, validate |-> TRUE]
GitOutcomes == [status : BOOLEAN, reset : BOOLEAN, validate : BOOLEAN]

\* executeJob after the retry loop, up to the call of commitAndPush: the
\* generatedTestPath check, resetNonTestFiles and the validation of the
\* changed files.
AfterLoop(id, st, git) ==
  LET afterReset == resetNonTestFiles(st.fr.changed, git.reset)
      changedFiles == getChangedFiles(afterReset, git.validate)
      invalidFiles == {f \in changedFiles : ~isTestFile(f)}
      st2 == emitProgress([st EXCEPT !.fr.changed = afterReset], 70)
  IN IF ~st.fr.generatedTestPath THEN Catch(id, st, Err.NoTestGenerated)
     ELSE IF invalidFiles # {} THEN Catch(id, st2, Err.InvalidFiles)
     ELSE [emitProgress(st2, 80) EXCEPT !.fr.commitFiles = changedFiles,
                                        !.fr.pc = "commitAndPush"]

LoopHead_NoRetryLimit(id, st, git) ==
  IF st.fr.currentCoverage < coverageThreshold
    THEN [st EXCEPT !.fr.attempt = @ + 1, !.fr.pc = "generateTests",
                    !.fr.emitted = Append(@, 25 + st.fr.attempt * 20),
                    !.fr.request = [sent |-> TRUE,
                                    uncoveredLines |-> st.fr.currentUncoveredLines]]
    ELSE AfterLoop(id, st, git)

LoopHead_FailsWhenExhausted(id, st, git) ==
  IF st.fr.attempt < st.fr.maxRetries /\ st.fr.currentCoverage < coverageThreshold
    THEN [st EXCEPT !.fr.attempt = @ + 1, !.fr.pc = "generateTests",
                    !.fr.emitted = Append(@, 25 + st.fr.attempt * 20),
                    !.fr.request = [sent |-> TRUE,
                                    uncoveredLines |-> st.fr.currentUncoveredLines]]
    ELSE IF st.fr.currentCoverage < coverageThreshold /\ st.fr.attempt > 0
      THEN Catch(id, st, Err.NoTestGenerated)
    ELSE AfterLoop(id, st, git)

\* the while condition of the retry loop and the start of an attempt
\* (progressBase is emitted), up to the call of aiProvider.generateTests
LoopHead(id, st, git) ==
  IF st.fr.attempt < st.fr.maxRetries /\ st.fr.currentCoverage < coverageThreshold
    THEN [st EXCEPT !.fr.attempt = @ + 1, !.fr.pc = "generateTests",
                    !.fr.emitted = Append(@, 25 + st.fr.attempt * 20),
                    !.fr.request = [sent |-> TRUE,
                                    uncoveredLines |-> st.fr.currentUncoveredLines]]
    ELSE AfterLoop(id, st, git)

\* the values in 0..100, none lower than the one before it
InOrder(values) ==
  /\ \A i \in DOMAIN values : values[i] \in 0..100
  /\ \A i \in DOMAIN values : i > 1 => values[i - 1] <= values[i]

Commit(id, st) ==
  /\ improvement_jobs' = st.jobs
  /\ coverage_files' = st.files
  /\ run' = [run EXCEPT ![id] =
       IF st.fr.emitted = <<>>
         THEN [st.fr EXCEPT !.emitted = run[id].emitted]
         ELSE [st.fr EXCEPT !.inOrder = @ /\ InOrder(run[id].emitted \o st.fr.emitted)]]
  /\ resp' = NoResp
  /\ UNCHANGED <<analysis_jobs, arun>>
  /\ UNCHANGED entityVars

Here(id) == [jobs |-> improvement_jobs, files |-> coverage_files,
             fr |-> [run[id] EXCEPT !.emitted = <<>>]]

processNextJob_NoRunningCheck ==
  LET id == JobRepository_findPending(improvement_jobs)
      job == JobRepository_mapToEntity(improvement_jobs[id])
      s == ImprovementJob_start(job)
      fileRow == CoverageFileRepository_findById(coverage_files, job.fileId)
      coverageFile == CoverageFileRepository_mapToEntity(fileRow)
  IN
  IF id = UnknownId THEN
    /\ resp' = Responded("processNextJob", UnknownId, NoError)
    /\ UNCHANGED <<improvement_jobs, coverage_files, run, analysis_jobs, arun>>
    /\ UNCHANGED entityVars
  ELSE
    /\ improvement_jobs' = JobRepository_save(improvement_jobs, id, s.job)
    /\ run' = [run EXCEPT ![id] =
         [NoRun EXCEPT !.pc = "clone", !.job = s.job, !.coverageFile = coverageFile,
                       !.emitted = <<5, 10>>, !.maxRetries = run[id].maxRetries]]
    /\ resp' = Responded("processNextJob", id, NoError)
    /\ UNCHANGED <<coverage_files, analysis_jobs, arun>>
    /\ UNCHANGED entityVars

\* JobOrchestrator.processNextJob, one tick of the timer, with executeJob up
\* to the call of githubService.clone.
processNextJob ==
  LET id == JobRepository_findPending(improvement_jobs)
      job == JobRepository_mapToEntity(improvement_jobs[id])
      runningJobs == JobRepository_findByRepositoryId(improvement_jobs, job.repositoryId)
      hasRunning == \E j \in runningJobs : improvement_jobs[j].status = "running" /\ j # id
      s == ImprovementJob_start(job)
      fileRow == CoverageFileRepository_findById(coverage_files, job.fileId)
      coverageFile == CoverageFileRepository_mapToEntity(fileRow)
  IN
  IF id = UnknownId \/ hasRunning THEN
    /\ resp' = Responded("processNextJob", UnknownId, NoError)
    /\ UNCHANGED <<improvement_jobs, coverage_files, run, analysis_jobs, arun>>
    /\ UNCHANGED entityVars
  ELSE
    /\ improvement_jobs' = JobRepository_save(improvement_jobs, id, s.job)
    /\ run' = [run EXCEPT ![id] =
         [NoRun EXCEPT !.pc = "clone", !.job = s.job, !.coverageFile = coverageFile,
                       !.emitted = <<5, 10>>, !.maxRetries = run[id].maxRetries]]
    /\ resp' = Responded("processNextJob", id, NoError)
    /\ UNCHANGED <<coverage_files, analysis_jobs, arun>>
    /\ UNCHANGED entityVars

ExternalCalls == {"clone", "installDependencies", "createBranch", "generateTests",
                  "runTestsWithCoverage", "commitAndPush", "createPullRequest"}

ExternalCallThrows_NoCleanupAfterClone(id) ==
  /\ run[id].pc \in ExternalCalls
  /\ LET st == Catch(id, [Here(id) EXCEPT !.fr.request = NoRequest], Err.ExternalCall) IN
     Commit(id, IF run[id].pc = "clone" THEN [st EXCEPT !.fr = NoRun] ELSE st)

\* any of the external calls of executeJob rejects: the catch block, then the
\* finally block, where clonePath is set from before the call of clone
ExternalCallThrows(id) ==
  /\ run[id].pc \in ExternalCalls
  /\ Commit(id, Catch(id, [Here(id) EXCEPT !.fr.request = NoRequest], Err.ExternalCall))

\* githubService.clone resolves; executeJob goes on to installDependencies
CloneReturns(id) ==
  /\ run[id].pc = "clone"
  /\ Commit(id, SuspendedAt(emitProgress(Here(id), 15), "installDependencies"))

\* installDependencies resolves, having touched files of the working
\* directory (the lock file); executeJob goes on to createBranch
InstallDependenciesReturns(id, touched) ==
  /\ run[id].pc = "installDependencies"
  /\ Commit(id, SuspendedAt(emitProgress([Here(id) EXCEPT !.fr.changed = @ \cup touched], 20),
                             "createBranch"))

\* createBranch resolves; the source file is read, findTestFile looks for a
\* test file of the target, the loop variables are set and the loop is entered
CreateBranchReturns(id, sourceExists, testFilePath, git) ==
  /\ run[id].pc = "createBranch"
  /\ LET st == Here(id)
         entered == [st EXCEPT !.fr.testFilePath = testFilePath,
                               !.fr.attempt = 0,
                               !.fr.currentCoverage = st.fr.coverageFile.coveragePercentage,
                               !.fr.generatedTestPath = FALSE,
                               !.fr.currentUncoveredLines = st.fr.coverageFile.uncoveredLines]
     IN Commit(id, IF ~sourceExists THEN Catch(id, st, Err.SourceNotFound)
                   ELSE LoopHead(id, entered, git))

\* aiProvider.generateTests resolves, having written paths of the kinds
\* written; valid: the file at generatedTestPath holds test constructs.
GenerateTestsReturns(id, written, valid, git) ==
  /\ run[id].pc = "generateTests"
  /\ LET st == [Here(id) EXCEPT !.fr.request = NoRequest,
                                !.fr.changed = @ \cup written,
                                !.fr.aiWrote = @ \cup written]
         newTestFiles == {f \in getChangedFiles(st.fr.changed, git.status) : isTestFile(f)}
         \* existsSync(fullTestPath): the test file findTestFile found, or
         \* the one the AI has written
         exists == st.fr.testFilePath \/ "test" \in st.fr.changed
         withPath == [st EXCEPT !.fr.generatedTestPath = TRUE]
     IN Commit(id,
          IF ~exists /\ newTestFiles = {} THEN
            IF st.fr.attempt < st.fr.maxRetries THEN LoopHead(id, st, git)
            ELSE Catch(id, st, Err.NoTestFile)
          ELSE IF ~valid THEN
            IF st.fr.attempt < st.fr.maxRetries THEN LoopHead(id, withPath, git)
            ELSE Catch(id, withPath, Err.InvalidTestContent)
          ELSE SuspendedAt(emitProgress(withPath, 25 + (st.fr.attempt - 1) * 20 + 10),
                           "runTestsWithCoverage"))

AfterMeasurement_KeepsUncoveredLines(id, st, matched, fileCoverage, totalCoverage, pathTaken, git) ==
  LET u == updateCoverage(st.fr.coverageFile, fileCoverage.percentage,
                          fileCoverage.uncoveredLines)
      st2 == IF matched
               THEN [st EXCEPT !.fr.currentCoverage = fileCoverage.percentage,
                               !.fr.measurement = [taken |-> TRUE, attempt |-> st.fr.attempt,
                                    uncoveredLines |-> fileCoverage.uncoveredLines],
                               !.fr.coverageFile = u.file,
                               !.files = CoverageFileRepository_save(st.files,
                                           st.fr.job.fileId, u.file)]
               ELSE [st EXCEPT !.fr.currentCoverage = totalCoverage]
      \* UNIQUE(repository_id, path): the row of the file is gone and another
      \* row has its path
      saveThrows == /\ matched /\ pathTaken
                    /\ CoverageFileRepository_findById(st.files, st.fr.job.fileId).status = "absent"
  IN IF saveThrows THEN Catch(id, [st2 EXCEPT !.files = st.files], Err.Constraint)
     ELSE IF st2.fr.currentCoverage >= coverageThreshold THEN AfterLoop(id, st2, git)
     ELSE LoopHead(id, st2, git)

\* the rest of one attempt once the coverage report is parsed.
\* fileCoverage: the entry matched for the target file, or none
\* (matched = FALSE) and the total of the report.  pathTaken: a row other than
\* the one the run loaded holds the path of the target file.
AfterMeasurement(id, st, matched, fileCoverage, totalCoverage, pathTaken, git) ==
  LET u == updateCoverage(st.fr.coverageFile, fileCoverage.percentage,
                          fileCoverage.uncoveredLines)
      st2 == IF matched
               THEN [st EXCEPT !.fr.currentCoverage = fileCoverage.percentage,
                               !.fr.currentUncoveredLines = fileCoverage.uncoveredLines,
                               !.fr.measurement = [taken |-> TRUE, attempt |-> st.fr.attempt,
                                    uncoveredLines |-> fileCoverage.uncoveredLines],
                               !.fr.coverageFile = u.file,
                               !.files = CoverageFileRepository_save(st.files,
                                           st.fr.job.fileId, u.file)]
               ELSE [st EXCEPT !.fr.currentCoverage = totalCoverage]
      \* UNIQUE(repository_id, path): the row of the file is gone and another
      \* row has its path
      saveThrows == /\ matched /\ pathTaken
                    /\ CoverageFileRepository_findById(st.files, st.fr.job.fileId).status = "absent"
  IN IF saveThrows THEN Catch(id, [st2 EXCEPT !.files = st.files], Err.Constraint)
     ELSE IF st2.fr.currentCoverage >= coverageThreshold THEN AfterLoop(id, st2, git)
     ELSE LoopHead(id, st2, git)

\* runTestsWithCoverage resolves; the report is parsed
RunTestsWithCoverageReturns(id, git) ==
  /\ run[id].pc = "runTestsWithCoverage"
  /\ \/ \E fileCoverage \in Measurements :
          \E pathTaken \in IF coverage_files[run[id].job.fileId].status = "absent"
                             THEN BOOLEAN ELSE {FALSE} :
            Commit(id, AfterMeasurement(id, Here(id), TRUE, fileCoverage, 0, pathTaken, git))
     \/ \E totalCoverage \in TotalCoverages :
          Commit(id, AfterMeasurement(id, Here(id), FALSE,
                                      [percentage |-> 0, uncoveredLines |-> 0],
                                      totalCoverage, FALSE, git))

\* commitAndPush resolves
CommitAndPushReturns(id) ==
  /\ run[id].pc = "commitAndPush"
  /\ Commit(id, SuspendedAt(emitProgress(Here(id), 90), "createPullRequest"))

\* executeJob steps 13 and 14: complete and save the job, mark the file
\* improved and save it
Complete(id, st, prInfoUrl) ==
  LET u == GitHubPrUrl_create(prInfoUrl)
      c == ImprovementJob_complete(st.fr.job, u.url)
      st2 == [st EXCEPT !.fr.job = c.job, !.jobs = JobRepository_save(st.jobs, id, c.job)]
      m == markAsImproved(st.fr.coverageFile, st.fr.currentCoverage, 0)
  IN IF u.err # NoError THEN Catch(id, st, u.err)
     ELSE IF c.err # NoError THEN Catch(id, st, c.err)
     ELSE IF JobRepository_saveThrows(st.jobs, st.files, id, c.job)
       THEN Catch(id, [st EXCEPT !.fr.job = c.job], Err.Constraint)
     ELSE IF m.err # NoError THEN Catch(id, st2, m.err)
     ELSE [emitProgress(st2, 100) EXCEPT
             !.fr.coverageFile = m.file,
             !.files = CoverageFileRepository_save(st2.files, st2.fr.job.fileId, m.file),
             !.fr.pc = "cleanupWorkDir", !.fr.result = "returned"]

\* createPullRequest resolves with the url of the pull request
CreatePullRequestReturns(id) ==
  /\ run[id].pc = "createPullRequest"
  /\ \E prInfoUrl \in {CreatedPrUrl, InvalidPrUrl} :
       Commit(id, Complete(id, Here(id), prInfoUrl))

\* cleanupWorkDir resolves or rejects; executeJob is left
CleanupWorkDirReturns(id) ==
  /\ run[id].pc = "cleanupWorkDir"
  /\ \E cleaned \in BOOLEAN :
       resp' = Responded("executeJob", id,
                         IF run[id].result = "rejected" \/ ~cleaned THEN "rejected"
                         ELSE NoError)
  /\ run' = [run EXCEPT ![id] = [NoRun EXCEPT !.maxRetries = run[id].maxRetries]]
  /\ UNCHANGED <<improvement_jobs, coverage_files, analysis_jobs, arun>>
  /\ UNCHANGED entityVars

\* The environment of the runs of Spec: the AI writes nothing or a test
\* file; the repository has no test file of the target; git answers and the
\* install leaves nothing behind.
AiWrites == {{}, {"test"}}

\* The specifications of the whole pipeline take requests for MaxJobs jobs.
RoomForJob ==
  Cardinality({j \in JobIds : improvement_jobs[j].status # "absent"}) < MaxJobs

Next ==
  \/ \E repositoryId \in Repos : \E fileId \in FileIds \cup {UnknownId} :
       RoomForJob /\ StartImprovementJob(repositoryId, fileId)
  \/ \E jobId \in FirstJobIds : CancelJob(jobId)
  \/ processNextJob
  \/ \E id \in FirstJobIds : ExternalCallThrows(id)
  \/ \E id \in FirstJobIds : CloneReturns(id)
  \/ \E id \in FirstJobIds : InstallDependenciesReturns(id, {})
  \/ \E id \in FirstJobIds : \E sourceExists \in BOOLEAN :
       CreateBranchReturns(id, sourceExists, FALSE, GitWorks)
  \/ \E id \in FirstJobIds : \E written \in AiWrites : \E valid \in BOOLEAN :
       GenerateTestsReturns(id, written, valid, GitWorks)
  \/ \E id \in FirstJobIds : RunTestsWithCoverageReturns(id, GitWorks)
  \/ \E id \in FirstJobIds : CommitAndPushReturns(id)
  \/ \E id \in FirstJobIds : CreatePullRequestReturns(id)
  \/ \E id \in FirstJobIds : CleanupWorkDirReturns(id)

Spec == Init /\ [][Next]_vars

\* ------------------------------------------------------------------ SpecRun
\* One improvement job in every environment of the working directory: the AI
\* writes paths of any kinds, the repository may hold a test file of the
\* target, the install may touch a tracked file, each git listing may fail.
NoJobYet == \A j \in JobIds : improvement_jobs[j].status = "absent"

NextRun ==
  \/ \E repositoryId \in Repos : \E fileId \in FileIds \cup {UnknownId} :
       NoJobYet /\ StartImprovementJob(repositoryId, fileId)
  \/ \E jobId \in FirstJobIds : CancelJob(jobId)
  \/ processNextJob
  \/ \E id \in FirstJobIds : ExternalCallThrows(id)
  \/ \E id \in FirstJobIds : CloneReturns(id)
  \/ \E id \in FirstJobIds : \E touched \in {{}, {"tracked"}} :
       InstallDependenciesReturns(id, touched)
  \/ \E id \in FirstJobIds : \E sourceExists \in BOOLEAN : \E testFilePath \in BOOLEAN :
       \E git \in GitOutcomes : CreateBranchReturns(id, sourceExists, testFilePath, git)
  \/ \E id \in FirstJobIds : \E written \in SUBSET FileKinds : \E valid \in BOOLEAN :
       \E git \in GitOutcomes : GenerateTestsReturns(id, written, valid, git)
  \/ \E id \in FirstJobIds : \E git \in GitOutcomes : RunTestsWithCoverageReturns(id, git)
  \/ \E id \in FirstJobIds : CommitAndPushReturns(id)
  \/ \E id \in FirstJobIds : CreatePullRequestReturns(id)
  \/ \E id \in FirstJobIds : CleanupWorkDirReturns(id)

SpecRun == Init /\ [][NextRun]_vars

\* --------------------------------------------------------------- the queue
\* The queue alone: requests fill every row of improvement_jobs, the
\* orchestrator ticks, and every run ends at its first external call (the
\* clone rejects), so that rows of all three statuses wait side by side.
NextScheduler ==
  \/ \E repositoryId \in Repos : \E fileId \in FileIds :
       StartImprovementJob(repositoryId, fileId)
  \/ processNextJob
  \/ \E id \in JobIds : ExternalCallThrows(id)
  \/ \E id \in JobIds : CleanupWorkDirReturns(id)

SpecScheduler == Init /\ [][NextScheduler]_vars

\* ------------------------------------------------------------- the retries
\* AI_MAX_RETRIES when unset
DefaultMaxRetries == 3
RetrySettings == 1..DefaultMaxRetries

\* the constructor of JobOrchestrator reads AI_MAX_RETRIES
JobOrchestrator_constructor(retries) ==
  /\ NoJobYet
  /\ \A j \in JobIds : run[j].pc = "idle"
  /\ run' = [j \in JobIds |-> [run[j] EXCEPT !.maxRetries = retries]]
  /\ resp' = NoResp
  /\ UNCHANGED <<improvement_jobs, coverage_files, analysis_jobs, arun>>
  /\ UNCHANGED entityVars

\* One orchestrator under any setting of AI_MAX_RETRIES and one job.
NextRetries ==
  \/ \E retries \in RetrySettings : JobOrchestrator_constructor(retries)
  \/ \E repositoryId \in Repos : \E fileId \in FileIds :
       NoJobYet /\ StartImprovementJob(repositoryId, fileId)
  \/ processNextJob
  \/ \E id \in FirstJobIds : ExternalCallThrows(id)
  \/ \E id \in FirstJobIds : CloneReturns(id)
  \/ \E id \in FirstJobIds : InstallDependenciesReturns(id, {})
  \/ \E id \in FirstJobIds : \E sourceExists \in BOOLEAN :
       CreateBranchReturns(id, sourceExists, FALSE, GitWorks)
  \/ \E id \in FirstJobIds : \E written \in AiWrites : \E valid \in BOOLEAN :
       GenerateTestsReturns(id, written, valid, GitWorks)
  \/ \E id \in FirstJobIds : RunTestsWithCoverageReturns(id, GitWorks)
  \/ \E id \in FirstJobIds : CommitAndPushReturns(id)
  \/ \E id \in FirstJobIds : CreatePullRequestReturns(id)
  \/ \E id \in FirstJobIds : CleanupWorkDirReturns(id)

SpecRetries == Init /\ [][NextRetries]_vars

\* ====================================================== AnalysisJobProcessor
\* What the coverage report of an analysed repository lists: found files, of
\* which below are under the threshold.
\* A report is the number of its files, how many of them lie below the
\* threshold (at 40 percent; the others at 85), and whether its last file is
\* one of parseIstanbulJson with more counts than statements (at 200 percent).
Reports ==
  {[found |-> 0, below |-> 0, over |-> FALSE], [found |-> 1, below |-> 1, over |-> FALSE],
   [found |-> 2, below |-> 1, over |-> FALSE], [found |-> 2, below |-> 1, over |-> TRUE]}

\* fileReport.percentage of the files of the report, sorted by percentage
Percentages(report) ==
  [k \in 1..report.found |->
     IF k <= report.below THEN 40
     ELSE IF report.over /\ k = report.found THEN 200 ELSE 85]

\* the store loop runs until CoverageFile.create or one of its arguments
\* throws: the number of rows inserted, and the error
Inserted(report) ==
  LET created == [k \in 1..report.found |->
                    CoveragePercentage_create(Finite(1000 * Percentages(report)[k]))]
      thrown == {k \in 1..report.found : ~created[k].created}
  IN IF thrown = {} THEN [rows |-> report.found, err |-> NoError]
     ELSE [rows |-> Min(thrown) - 1, err |-> created[Min(thrown)].err]

Rank(S, x) == Cardinality({y \in S : y <= x})

CoverageFileRepository_deleteByRepositoryId_KeepsRows(table, repositoryId) == table

\* coverageFileRepo.deleteByRepositoryId(repositoryId)
CoverageFileRepository_deleteByRepositoryId(table, repositoryId) ==
  [f \in DOMAIN table |-> IF table[f].repository_id = repositoryId THEN NoFileRow ELSE table[f]]

\* improvement_jobs.file_id REFERENCES coverage_files(id) ON DELETE CASCADE
CascadeDeletedFiles(jobs, files) ==
  [j \in DOMAIN jobs |->
     IF jobs[j].status # "absent" /\ files[jobs[j].file_id].status = "absent"
       THEN NoJobRow ELSE jobs[j]]

\* the ids a new row can get: CoverageFile.create draws a fresh id, so none
\* that a row or a run in flight holds
FreshFileIds(table) ==
  {f \in DOMAIN table : /\ table[f].status = "absent"
                         /\ \A j \in JobIds : run[j].pc = "idle" \/ run[j].job.fileId # f}

\* executeJob, storing the report: one CoverageFile.create and save per file
\* of the report, sorted by percentage, up to the first that throws.  The new
\* rows get the unused ids.
StoreReport(table, repositoryId, report) ==
  LET free == FreshFileIds(table)
  IN [f \in DOMAIN table |->
        IF f \in free /\ Rank(free, f) <= Inserted(report).rows
          THEN [repository_id |-> repositoryId, status |-> "pending",
                coverage_percentage |-> Percentages(report)[Rank(free, f)],
                uncovered_lines |-> IF Rank(free, f) <= report.below THEN 2 ELSE 0]
          ELSE table[f]]

\* A step of AnalysisJobProcessor.executeJob works on
\* st = [jobs, files, ijobs, fr]: analysis_jobs, coverage_files,
\* improvement_jobs and the frame of the run.
AnalysisHere(id) == [jobs |-> analysis_jobs, files |-> coverage_files,
                     ijobs |-> improvement_jobs, fr |-> arun[id]]

\* executeJob, the catch block: job.fail and save
AnalysisCatch(id, st, errorMessage) ==
  LET f == AnalysisJob_fail(st.fr.job, errorMessage) IN
  IF f.err # NoError
    THEN [st EXCEPT !.fr.pc = "cleanupWorkDir", !.fr.result = "rejected"]
    ELSE [st EXCEPT !.jobs = AnalysisJobRepository_save(st.jobs, id, f.job),
                    !.fr.job = f.job, !.fr.pc = "cleanupWorkDir", !.fr.result = "returned"]

\* job.updateProgress(progress); analysisJobRepo.save(job); then executeJob is
\* suspended at the external call pc
SaveProgress(id, st, progress, pc) ==
  LET u == AnalysisJob_updateProgress(st.fr.job, progress) IN
  IF u.err # NoError THEN AnalysisCatch(id, st, u.err)
  ELSE [st EXCEPT !.jobs = AnalysisJobRepository_save(st.jobs, id, u.job),
                  !.fr.job = u.job, !.fr.pc = pc]

\* executeJob from the parsed report to the end of the try block: progress 80,
\* the rows of the repository replaced, job.complete and save
StoreAndComplete(id, st, report) ==
  LET s80 == SaveProgress(id, st, 80, "store")
      deleted == CoverageFileRepository_deleteByRepositoryId(s80.files, s80.fr.job.repositoryId)
      stored == StoreReport(deleted, s80.fr.job.repositoryId, report)
      replaced == [s80 EXCEPT !.files = stored,
                              !.ijobs = CascadeDeletedFiles(s80.ijobs, deleted)]
      c == AnalysisJob_complete(s80.fr.job, report.found, report.below)
  IN IF s80.fr.pc # "store" THEN s80
     ELSE IF Inserted(report).err # NoError
       THEN AnalysisCatch(id, replaced, Inserted(report).err)
     ELSE IF c.err # NoError
       THEN AnalysisCatch(id, replaced, c.err)
     ELSE [jobs |-> AnalysisJobRepository_save(s80.jobs, id, c.job),
           files |-> stored,
           ijobs |-> CascadeDeletedFiles(s80.ijobs, deleted),
           fr |-> [s80.fr EXCEPT !.job = c.job, !.pc = "cleanupWorkDir", !.result = "returned"]]

AnalysisCommit(id, st) ==
  /\ analysis_jobs' = st.jobs
  /\ coverage_files' = st.files
  /\ improvement_jobs' = st.ijobs
  /\ arun' = [arun EXCEPT ![id] = st.fr]
  /\ resp' = NoResp
  /\ UNCHANGED run
  /\ UNCHANGED entityVars

\* the report fits the ids the model has for new rows
Fits(st, report) ==
  report.found <= Cardinality(FreshFileIds(
    CoverageFileRepository_deleteByRepositoryId(st.files, st.fr.job.repositoryId)))

\* RepositoriesController.analyze, one HTTP request
AnalyzeRepository(repositoryId) ==
  LET existingJobs == AnalysisJobRepository_findByRepositoryId(analysis_jobs, repositoryId)
      activeJob == {a \in existingJobs : analysis_jobs[a].status \in {"pending", "running"}}
      free == {a \in AnalysisJobIds : analysis_jobs[a].status = "absent"}
      id == Min(free)
  IN
  /\ free # {}
  /\ IF activeJob # {} THEN
       /\ resp' = Responded("analyze", Min(activeJob), NoError)
       /\ UNCHANGED analysis_jobs
     ELSE
       /\ analysis_jobs' = AnalysisJobRepository_save(analysis_jobs, id,
                                                      AnalysisJob_create(repositoryId))
       /\ resp' = Responded("analyze", id, NoError)
  /\ UNCHANGED <<improvement_jobs, coverage_files, run, arun>>
  /\ UNCHANGED entityVars

AnalysisJobProcessor_processNextJob_NoRunningCheck ==
  LET id == AnalysisJobRepository_findPending(analysis_jobs)
      job == AnalysisJobRepository_mapToEntity(analysis_jobs[id])
      s == AnalysisJob_start(job)
  IN
  IF id = UnknownId THEN
    /\ resp' = Responded("AnalysisJobProcessor.processNextJob", UnknownId, NoError)
    /\ UNCHANGED <<analysis_jobs, improvement_jobs, coverage_files, run, arun>>
    /\ UNCHANGED entityVars
  ELSE
    /\ analysis_jobs' = AnalysisJobRepository_save(analysis_jobs, id, s.job)
    /\ arun' = [arun EXCEPT ![id] = [pc |-> "clone", job |-> s.job, result |-> "none"]]
    /\ resp' = Responded("AnalysisJobProcessor.processNextJob", id, NoError)
    /\ UNCHANGED <<improvement_jobs, coverage_files, run>>
    /\ UNCHANGED entityVars

\* AnalysisJobProcessor.processNextJob, one tick of the timer, with executeJob
\* up to the call of githubService.clone
AnalysisJobProcessor_processNextJob ==
  LET id == AnalysisJobRepository_findPending(analysis_jobs)
      job == AnalysisJobRepository_mapToEntity(analysis_jobs[id])
      runningJobs == AnalysisJobRepository_findRunning(analysis_jobs)
      s == AnalysisJob_start(job)
  IN
  IF id = UnknownId \/ runningJobs # {} THEN
    /\ resp' = Responded("AnalysisJobProcessor.processNextJob", UnknownId, NoError)
    /\ UNCHANGED <<analysis_jobs, improvement_jobs, coverage_files, run, arun>>
    /\ UNCHANGED entityVars
  ELSE
    /\ analysis_jobs' = AnalysisJobRepository_save(analysis_jobs, id, s.job)
    /\ arun' = [arun EXCEPT ![id] = [pc |-> "clone", job |-> s.job, result |-> "none"]]
    /\ resp' = Responded("AnalysisJobProcessor.processNextJob", id, NoError)
    /\ UNCHANGED <<improvement_jobs, coverage_files, run>>
    /\ UNCHANGED entityVars

AnalysisExternalCalls == {"clone", "installDependencies", "runTestsWithCoverage"}

\* an external call of the analysis rejects
AnalysisExternalCallThrows(id) ==
  /\ arun[id].pc \in AnalysisExternalCalls
  /\ AnalysisCommit(id, AnalysisCatch(id, AnalysisHere(id), Err.ExternalCall))

\* githubService.clone resolves: progress 20; with a package.json the
\* dependencies are installed, without one the files are scanned (progress 60)
\* and stored, every one of them at 0 percent
AnalysisCloneReturns(id) ==
  /\ arun[id].pc = "clone"
  /\ \E projectInfo \in BOOLEAN : \E report \in Reports :
       LET s20 == SaveProgress(id, AnalysisHere(id), 20, "installDependencies")
           s60 == SaveProgress(id, s20, 60, "scan")
       IN /\ projectInfo \/ (report.below = report.found /\ ~report.over)
          /\ Fits(s20, report)
          /\ AnalysisCommit(id,
               IF projectInfo \/ s20.fr.pc # "installDependencies" THEN s20
               ELSE IF s60.fr.pc # "scan" THEN s60
               ELSE StoreAndComplete(id, s60, report))

\* installDependencies resolves: progress 40
AnalysisInstallDependenciesReturns(id) ==
  /\ arun[id].pc = "installDependencies"
  /\ AnalysisCommit(id, SaveProgress(id, AnalysisHere(id), 40, "runTestsWithCoverage"))

\* runTestsWithCoverage resolves: progress 60, the report is parsed and stored
AnalysisRunTestsWithCoverageReturns(id) ==
  /\ arun[id].pc = "runTestsWithCoverage"
  /\ \E report \in Reports :
       LET s60 == SaveProgress(id, AnalysisHere(id), 60, "parse")
       IN /\ Fits(s60, report)
          /\ AnalysisCommit(id, IF s60.fr.pc # "parse" THEN s60
                                ELSE StoreAndComplete(id, s60, report))

\* cleanupWorkDir resolves or rejects; executeJob is left
AnalysisCleanupWorkDirReturns(id) ==
  /\ arun[id].pc = "cleanupWorkDir"
  /\ arun' = [arun EXCEPT ![id] = NoAnalysisRun]
  /\ resp' = NoResp
  /\ UNCHANGED <<analysis_jobs, improvement_jobs, coverage_files, run>>
  /\ UNCHANGED entityVars

NextAnalysis ==
  \/ \E repositoryId \in Repos : AnalyzeRepository(repositoryId)
  \/ AnalysisJobProcessor_processNextJob
  \/ \E id \in AnalysisJobIds : AnalysisExternalCallThrows(id)
  \/ \E id \in AnalysisJobIds : AnalysisCloneReturns(id)
  \/ \E id \in AnalysisJobIds : AnalysisInstallDependenciesReturns(id)
  \/ \E id \in AnalysisJobIds : AnalysisRunTestsWithCoverageReturns(id)
  \/ \E id \in AnalysisJobIds : AnalysisCleanupWorkDirReturns(id)

SpecAnalysis == Init /\ [][NextAnalysis]_vars

\* ------------------------------------------------------------- SpecServices
\* Both polling services, one of them in use: a behaviour is a behaviour of
\* the improvement side while no analysis job was ever requested, or one of
\* the analysis side while no improvement job was.
NoAnalysisJobs == \A a \in AnalysisJobIds : analysis_jobs[a].status = "absent"
NoImprovementJobs == \A j \in JobIds : improvement_jobs[j].status = "absent"

NextServices ==
  \/ NoAnalysisJobs /\ Next
  \/ NoImprovementJobs /\ NextAnalysis

SpecServices == Init /\ [][NextServices]_vars

\* --------------------------------------------------------------- SpecSystem
\* Both polling services at work on the same tables: one improvement job and
\* one analysis job, requested and run in any order.  The analysis replaces
\* the rows of its repository, which takes the rows of the improvement jobs
\* on them along; a run in flight goes on with the objects it loaded.
NextSystem ==
  \/ \E repositoryId \in Repos : \E fileId \in FileIds :
       NoJobYet /\ StartImprovementJob(repositoryId, fileId)
  \/ \E jobId \in FirstJobIds : CancelJob(jobId)
  \/ processNextJob
  \/ \E id \in FirstJobIds : ExternalCallThrows(id)
  \/ \E id \in FirstJobIds : CloneReturns(id)
  \/ \E id \in FirstJobIds : InstallDependenciesReturns(id, {})
  \/ \E id \in FirstJobIds : \E sourceExists \in BOOLEAN :
       CreateBranchReturns(id, sourceExists, FALSE, GitWorks)
  \/ \E id \in FirstJobIds : \E written \in AiWrites : \E valid \in BOOLEAN :
       GenerateTestsReturns(id, written, valid, GitWorks)
  \/ \E id \in FirstJobIds : RunTestsWithCoverageReturns(id, GitWorks)
  \/ \E id \in FirstJobIds : CommitAndPushReturns(id)
  \/ \E id \in FirstJobIds : CreatePullRequestReturns(id)
  \/ \E id \in FirstJobIds : CleanupWorkDirReturns(id)
  \/ \E repositoryId \in Repos : NoAnalysisJobs /\ AnalyzeRepository(repositoryId)
  \/ AnalysisJobProcessor_processNextJob
  \/ \E id \in AnalysisJobIds : AnalysisExternalCallThrows(id)
  \/ \E id \in AnalysisJobIds : AnalysisCloneReturns(id)
  \/ \E id \in AnalysisJobIds : AnalysisInstallDependenciesReturns(id)
  \/ \E id \in AnalysisJobIds : AnalysisRunTestsWithCoverageReturns(id)
  \/ \E id \in AnalysisJobIds : AnalysisCleanupWorkDirReturns(id)

SpecSystem == Init /\ [][NextSystem]_vars

\* ============================================================= JobProcessor
\* JobProcessor.executeImprovementJob, the sandbox strategy, as far as the
\* working directory goes: the frame of a run holds pc, changed, aiWrote and
\* commitFiles as above.  The Job entity and its repository are not among the
\* sources; the run of a job is entered whenever none is in flight for it.
SandboxCalls == {"runAnalysis", "clone", "generateTests", "runTests", "createBranch",
                 "commitAndPush", "createPullRequest"}

SandboxCommit(id, fr) ==
  /\ run' = [run EXCEPT ![id] = fr]
  /\ resp' = NoResp
  /\ UNCHANGED <<improvement_jobs, coverage_files, analysis_jobs, arun>>
  /\ UNCHANGED entityVars

\* the catch block and the finally block: cleanupWorkDir is called once
\* clonePath is set, which it is from before the call of clone
SandboxCatch(fr) ==
  IF fr.pc = "runAnalysis" THEN NoRun
  ELSE [fr EXCEPT !.pc = "cleanupWorkDir", !.result = "returned"]

\* executeImprovementJob up to the call of sandbox.runAnalysis
ExecuteImprovementJob(id) ==
  /\ run[id].pc = "idle"
  /\ SandboxCommit(id, [NoRun EXCEPT !.pc = "runAnalysis"])

\* an external call of the run rejects
SandboxCallThrows(id) ==
  /\ run[id].pc \in SandboxCalls
  /\ SandboxCommit(id, SandboxCatch(run[id]))

\* runAnalysis, clone, runTests, commitAndPush resolve: the result is checked
\* (ok: success, the source files found, the tests passed) and the next call
\* is made
SandboxCallReturns(id, ok) ==
  /\ run[id].pc \in {"runAnalysis", "clone", "runTests", "commitAndPush"}
  /\ SandboxCommit(id,
       IF ~ok /\ run[id].pc \in {"runAnalysis", "runTests"} THEN SandboxCatch(run[id])
       ELSE [run[id] EXCEPT !.pc = CASE run[id].pc = "runAnalysis" -> "clone"
                                     [] run[id].pc = "clone" -> "generateTests"
                                     [] run[id].pc = "runTests" -> "createBranch"
                                     [] run[id].pc = "commitAndPush" -> "createPullRequest"])

\* aiProvider.generateTests resolves: the changed test files are validated,
\* then resetNonTestFiles, then the tests are run in the sandbox
SandboxGenerateTestsReturns(id, written, valid, git) ==
  /\ run[id].pc = "generateTests"
  /\ LET fr == [run[id] EXCEPT !.changed = @ \cup written, !.aiWrote = @ \cup written]
         testFiles == {f \in getChangedFiles(fr.changed, git.status) : isTestFile(f)}
     IN SandboxCommit(id,
          IF testFiles = {} \/ ~valid THEN SandboxCatch(fr)
          ELSE [fr EXCEPT !.changed = resetNonTestFiles(fr.changed, git.reset),
                          !.pc = "runTests"])

\* createBranch resolves: finalChangedFiles is read and passed to commitAndPush
SandboxCreateBranchReturns(id, git) ==
  /\ run[id].pc = "createBranch"
  /\ SandboxCommit(id, [run[id] EXCEPT !.commitFiles = getChangedFiles(run[id].changed,
                                                                       git.validate),
                                       !.pc = "commitAndPush"])

\* createPullRequest resolves: the job is completed and the files are marked
SandboxCreatePullRequestReturns(id) ==
  /\ run[id].pc = "createPullRequest"
  /\ SandboxCommit(id, [run[id] EXCEPT !.pc = "cleanupWorkDir", !.result = "returned"])

NextJobProcessor ==
  \/ \E id \in FirstJobIds : ExecuteImprovementJob(id)
  \/ \E id \in FirstJobIds : SandboxCallThrows(id)
  \/ \E id \in FirstJobIds : \E ok \in BOOLEAN : SandboxCallReturns(id, ok)
  \/ \E id \in FirstJobIds : \E written \in SUBSET FileKinds : \E valid \in BOOLEAN :
       \E git \in GitOutcomes : SandboxGenerateTestsReturns(id, written, valid, git)
  \/ \E id \in FirstJobIds : \E git \in GitOutcomes : SandboxCreateBranchReturns(id, git)
  \/ \E id \in FirstJobIds : SandboxCreatePullRequestReturns(id)
  \/ \E id \in FirstJobIds : CleanupWorkDirReturns(id)

SpecJobProcessor == Init /\ [][NextJobProcessor]_vars

\* ==================================================================== claims

ImprovementJobMethods == {"start", "updateProgress", "complete", "fail"}
LegalJobMoves == {<<"pending", "running">>, <<"running", "completed">>, <<"running", "failed">>}
IsTerminal(status) == status \in {"completed", "failed"}

ImprovementJobCalled == call'.obj = "ImprovementJob" /\ call'.op \in ImprovementJobMethods

\* the calls C4 lists as attempted transitions that are not allowed
C4_Refused ==
  \/ call'.op \in {"complete", "fail"} /\ ijob.status = "pending"
  \/ call'.op = "start" /\ ijob.status = "running"
  \/ IsTerminal(ijob.status)

C4_MovesOnlyAlongTable ==
  ijob'.status # ijob.status => <<ijob.status, ijob'.status>> \in LegalJobMoves

\* C4 as stated: every refused call, updateProgress on a completed or failed
\* job included, raises 'Invalid status transition' and changes nothing.
C4_Original ==
  [][ImprovementJobCalled =>
       /\ C4_MovesOnlyAlongTable
       /\ C4_Refused => call'.err = Err.InvalidTransition /\ ijob' = ijob]_vars

\* C4 (amended): over any sequence of start, updateProgress, complete and fail
\* calls on an ImprovementJob the status moves only pending -> running ->
\* completed or pending -> running -> failed; every refused call leaves status,
\* progress, prUrl and error unchanged and raises an error, which is 'Invalid
\* status transition' for start, complete and fail and 'Cannot update progress
\* for non-running job' for updateProgress.
C4_Amended ==
  [][ImprovementJobCalled =>
       /\ C4_MovesOnlyAlongTable
       /\ C4_Refused =>
            /\ ijob' = ijob
            /\ call'.err = IF call'.op = "updateProgress" THEN Err.NotRunning
                           ELSE Err.InvalidTransition]_vars

C4_Witness ==
  /\ call.obj = "ImprovementJob" /\ call.op = "fail" /\ call.pre = "completed"
  /\ call.err = Err.InvalidTransition
  /\ ijob.status = "completed" /\ ijob.error = NULL

\* C5: canTransitionTo(a, b) is true exactly for (pending, running),
\* (running, completed) and (running, failed).
C5_Table ==
  call.op = "canTransitionTo" => (call.ret <=> <<call.from, call.to>> \in LegalJobMoves)

C5_Witness == call.op = "canTransitionTo" /\ call.from = "completed" /\ call.to = "running" /\ ~call.ret

\* what C6 says of one call
C6_Step ==
  /\ call'.obj = "ImprovementJob" /\ call'.op = "updateProgress"
       /\ (ijob.status # "running" \/ call'.p < 0 \/ call'.p > 100)
       => call'.err # NoError /\ ijob' = ijob
  /\ call'.obj = "AnalysisJob" /\ call'.op = "updateProgress"
       /\ (ajob.status # "running" \/ call'.p < 0 \/ call'.p > 100)
       => call'.err # NoError /\ ajob' = ajob
  /\ call'.obj = "ImprovementJob" /\ call'.op = "start" /\ call'.err = NoError => ijob'.progress = 0
  /\ call'.obj = "AnalysisJob" /\ call'.op = "start" /\ call'.err = NoError => ajob'.progress = 0
  /\ call'.obj = "ImprovementJob" /\ call'.op = "complete" /\ call'.err = NoError => ijob'.progress = 100
  /\ call'.obj = "AnalysisJob" /\ call'.op = "complete" /\ call'.err = NoError => ajob'.progress = 100

\* C6: progress of ImprovementJob and of AnalysisJob stays within [0,100];
\* updateProgress(p) is rejected with the state unchanged when the job is not
\* running or p is outside [0,100]; start() sets 0 and complete() sets 100.
C6_ProgressInRange ==
  [](ijob.progress \in 0..100 /\ ajob.progress \in 0..100) /\ [][C6_Step]_vars

C6_Witness ==
  /\ call.obj = "AnalysisJob" /\ call.op = "updateProgress" /\ call.p = 101
  /\ call.pre = "running" /\ call.err = Err.ProgressRange
  /\ ijob.status = "running" /\ ijob.progress = 100

LegalFileMoves == {<<"pending", "improving">>, <<"improving", "improved">>, <<"improving", "pending">>}

C8_Original ==
  [][call'.obj = "CoverageFile"
       /\ call'.op \in {"markAsImproving", "markAsImproved", "resetToPending", "updateCoverage"}
       /\ cfile'.status # cfile.status
       => <<cfile.status, cfile'.status>> \in LegalFileMoves]_vars

\* ---------------------------------------------------------- system claims
RunningIn(repositoryId) ==
  {j \in JobIds : improvement_jobs[j].status = "running"
                    /\ improvement_jobs[j].repository_id = repositoryId}

\* C1: in every reachable state of the improvement_jobs table at most one job
\* of a repository has status running, whatever the interleaving of
\* processNextJob ticks, StartImprovementJob requests and CancelJob requests.
C1_OneRunningPerRepository == \A r \in Repos : Cardinality(RunningIn(r)) <= 1

\* two runs of one repository in flight, the older one cancelled, the newer
\* one the only running row of the repository
C1_Witness ==
  \E j1, j2 \in JobIds :
    /\ j1 # j2
    /\ improvement_jobs[j1].repository_id = improvement_jobs[j2].repository_id
    /\ run[j1].pc # "idle" /\ run[j2].pc # "idle"
    /\ improvement_jobs[j1].status = "failed" /\ improvement_jobs[j1].error = MsgCancelled
    /\ improvement_jobs[j2].status = "running"

\* C2: in every reachable state of the analysis_jobs table at most one job,
\* over all repositories, has status running, whatever the interleaving of
\* AnalysisJobProcessor.processNextJob ticks and analyze requests.
C2_OneRunningAnalysis == Cardinality(AnalysisJobRepository_findRunning(analysis_jobs)) <= 1

\* a tick found a pending analysis of one repository and refused it because
\* the analysis of another repository is running
C2_Witness ==
  /\ resp = Responded("AnalysisJobProcessor.processNextJob", UnknownId, NoError)
  /\ \E a1, a2 \in AnalysisJobIds :
       /\ analysis_jobs[a1].status = "running" /\ analysis_jobs[a2].status = "pending"
       /\ analysis_jobs[a1].repository_id # analysis_jobs[a2].repository_id
       /\ arun[a1].pc # "idle"

\* C3 as stated: in the step that persists an improvement job as failed its
\* CoverageFile is persisted with a status other than improving, and no later
\* step of the same job's run writes improving back to the file.
C3_Original ==
  [][\A j \in JobIds :
       LET fileId == improvement_jobs'[j].file_id IN
       /\ improvement_jobs[j].status # "failed" /\ improvement_jobs'[j].status = "failed"
            => coverage_files'[fileId].status # "improving"
       /\ improvement_jobs[j].status = "failed" /\ run'[j] # run[j]
            => ~(/\ coverage_files[fileId].status # "improving"
                 /\ coverage_files'[fileId].status = "improving")]_vars

\* C9 as stated: CancelJob on a pending or running job leaves the job failed
\* with the cancellation message and its file pending; CancelJob on a
\* completed or failed job is rejected and changes neither job nor file.
C9_Original ==
  [][\A j \in JobIds :
       resp'.op = "CancelJob" /\ resp'.id = j /\ improvement_jobs[j].status # "absent" =>
         IF improvement_jobs[j].status \in {"pending", "running"}
           THEN /\ improvement_jobs'[j].status = "failed"
                /\ improvement_jobs'[j].error = MsgCancelled
                /\ coverage_files'[improvement_jobs[j].file_id].status = "pending"
           ELSE /\ resp'.err # NoError
                /\ improvement_jobs' = improvement_jobs
                /\ coverage_files' = coverage_files]_vars

\* C10 as stated: once the persisted status of an improvement job is completed
\* or failed, its persisted status, pr_url and error never change again.
C10_Original ==
  [][\A j \in JobIds :
       IsTerminal(improvement_jobs[j].status) =>
         /\ improvement_jobs'[j].status = improvement_jobs[j].status
         /\ improvement_jobs'[j].pr_url = improvement_jobs[j].pr_url
         /\ improvement_jobs'[j].error = improvement_jobs[j].error]_vars

\* ------------------------------------------------------------ run claims
\* executeJob is entered for job j: its frame is set up at the first
\* external call
Entered(j) == run'[j].pc = "clone" /\ run[j].pc # "clone"
AnalysisEntered(a) == arun'[a].pc = "clone" /\ arun[a].pc # "clone"

\* C11: no job is executed twice.  executeJob is entered for a job only while
\* no run of the job is in flight and its persisted status is pending, the
\* same step persists it as running, and no step makes the persisted status
\* of a job pending again; so over the lifetime of a job executeJob is
\* entered at most once, for improvement jobs and for analysis jobs, whatever
\* the order of ticks, requests and returning calls.
C11_EnteredAtMostOnce ==
  [][/\ \A j \in JobIds :
          /\ Entered(j) => /\ run[j].pc = "idle"
                           /\ improvement_jobs[j].status = "pending"
                           /\ improvement_jobs'[j].status = "running"
          /\ improvement_jobs[j].status \in {"running", "completed", "failed"}
               => improvement_jobs'[j].status # "pending"
     /\ \A a \in AnalysisJobIds :
          /\ AnalysisEntered(a) => /\ arun[a].pc = "idle"
                                   /\ analysis_jobs[a].status = "pending"
                                   /\ analysis_jobs'[a].status = "running"
          /\ analysis_jobs[a].status \in {"running", "completed", "failed"}
               => analysis_jobs'[a].status # "pending"]_vars

\* a tick came while the run of a job was in flight, and started nothing
C11_Witness ==
  /\ resp = Responded("processNextJob", UnknownId, NoError)
  /\ \E j \in JobIds : /\ improvement_jobs[j].status = "running"
                        /\ run[j].pc \notin {"idle", "clone"}
                        /\ \A k \in JobIds \ {j} : improvement_jobs[k].status # "pending"

\* the step calls aiProvider.generateTests for job j: the start of an attempt
Invoked(j) == run'[j].pc = "generateTests" /\ run'[j].attempt # run[j].attempt

\* C12: in one improvement job the AI provider is invoked at most maxRetries
\* times: every invocation raises the attempt counter by one, the counter
\* never falls during the run and never exceeds maxRetries, so the retry loop
\* terminates; and an invocation is made only while the coverage measured
\* last is below coverageThreshold, so none follows an attempt that
\* measured coverageThreshold or more.
C12_BoundedAttempts ==
  [][\A j \in JobIds :
       /\ run'[j].attempt <= maxRetries
       /\ run[j].pc \notin {"idle", "clone", "installDependencies", "createBranch"}
            /\ run'[j].pc # "idle" => run'[j].attempt >= run[j].attempt
       /\ Invoked(j) => /\ run'[j].attempt = run[j].attempt + 1
                        /\ run'[j].currentCoverage < coverageThreshold
       /\ run[j].pc = "runTestsWithCoverage" /\ run'[j].pc # "runTestsWithCoverage"
            /\ run'[j].currentCoverage >= coverageThreshold
            => ~Invoked(j)]_vars

\* the loop was left before the attempts were used up, on a measurement at
\* or above the threshold
C12_Witness ==
  \E j \in JobIds : /\ run[j].pc = "commitAndPush"
                    /\ run[j].attempt < maxRetries
                    /\ run[j].currentCoverage >= coverageThreshold

\* C13: the uncovered lines passed to the AI provider at an attempt are those
\* of the target file in the most recent coverage report of this job that
\* listed the file, and, while no report of this job has listed it (as at the
\* first attempt), those the CoverageFile was loaded with.
C13_CurrentUncoveredLines ==
  [][\A j \in JobIds :
       Invoked(j) =>
         /\ run'[j].request.sent
         /\ run'[j].request.uncoveredLines =
              IF run'[j].measurement.taken THEN run'[j].measurement.uncoveredLines
              ELSE run[j].coverageFile.uncoveredLines]_vars

\* a second attempt is under way with the lines of the first measurement,
\* which are not the lines the file was analysed with
C13_Witness ==
  \E j \in JobIds : /\ run[j].pc = "generateTests" /\ run[j].attempt > 1
                    /\ run[j].measurement.taken
                    /\ run[j].request.uncoveredLines = run[j].measurement.uncoveredLines
                    /\ run[j].request.uncoveredLines # AnalysedFileRow(1).uncovered_lines

\* the AI calls of the run of job j have written a test file and a non-test
\* file
WroteOutOfScope(j) == "test" \in run[j].aiWrote /\ run[j].aiWrote \ {"test"} # {}

\* C14 as stated: when the AI has modified both a test file and a production
\* file during an improvement job, commitAndPush and createPullRequest are
\* never called and the job does not complete.
C14_Original ==
  \A j \in JobIds :
    WroteOutOfScope(j) => /\ run[j].pc \notin {"commitAndPush", "createPullRequest"}
                          /\ run[j].job.status # "completed"

\* C15 as stated: every path in the list passed to commitAndPush is a test
\* file, and commitAndPush is not called while a non-test file is still
\* changed in the working directory after the revert step.
C15_Original ==
  \A j \in JobIds :
    run[j].pc = "commitAndPush" =>
      /\ \A f \in run[j].commitFiles : isTestFile(f)
      /\ \A f \in run[j].changed : isTestFile(f)

\* C16 as stated: in JobProcessor.executeImprovementJob the list passed to
\* commitAndPush never holds a non-test file.
C16_Original ==
  \A j \in JobIds :
    run[j].pc = "commitAndPush" => \A f \in run[j].commitFiles : isTestFile(f)

\* C17: every run of executeJob, of an improvement job or of an analysis job,
\* calls cleanupWorkDir exactly once before it finishes: the run is left only
\* from the call of cleanupWorkDir, whatever happened before (all steps
\* succeeded, a call failed, clone failed, the catch block itself threw), and
\* after the call nothing follows but the end of the run.
C17_CleanupExactlyOnce ==
  [][/\ \A j \in JobIds :
          /\ run[j].pc # "idle" /\ run'[j].pc = "idle" => run[j].pc = "cleanupWorkDir"
          /\ run[j].pc = "cleanupWorkDir" /\ run'[j] # run[j] => run'[j].pc = "idle"
     /\ \A a \in AnalysisJobIds :
          /\ arun[a].pc # "idle" /\ arun'[a].pc = "idle" => arun[a].pc = "cleanupWorkDir"
          /\ arun[a].pc = "cleanupWorkDir" /\ arun'[a] # arun[a] => arun'[a].pc = "idle"]_vars

\* the catch block of a run threw, and the run is at its call of
\* cleanupWorkDir
C17_Witness ==
  \E j \in JobIds : run[j].pc = "cleanupWorkDir" /\ run[j].result = "rejected"

\* C18 as stated: executeJob never raises to its caller; whatever is thrown
\* during a run, the run ends with the job persisted as failed.
C18_Original ==
  \A j \in JobIds :
    /\ run[j].result # "rejected"
    /\ run[j].pc = "cleanupWorkDir" /\ run[j].job.status # "completed"
         => improvement_jobs[j].status = "failed"

\* C19: when the last of the maxRetries attempts has run its tests and the
\* measured coverage is still below coverageThreshold, the job does not fail
\* for that: the run goes on to commitAndPush (unless the changed files are
\* out of scope), and when createPullRequest has resolved the job is
\* persisted as completed and its file as improved with the coverage
\* measured last.
C19_CompletesBelowThreshold ==
  [][\A j \in JobIds :
       /\ /\ run[j].pc = "runTestsWithCoverage" /\ run[j].attempt = maxRetries
          /\ run'[j].pc # "runTestsWithCoverage"
          /\ run'[j].job.error # Err.ExternalCall
          /\ run'[j].currentCoverage < coverageThreshold
          => \/ run'[j].pc = "commitAndPush"
             \/ run'[j].job.error = Err.InvalidFiles
       /\ run[j].pc = "createPullRequest" /\ run'[j].job.status = "completed"
            /\ run'[j].result = "returned"
          => /\ improvement_jobs'[j].status = "completed"
             /\ coverage_files'[run[j].job.fileId].status = "improved"
             /\ coverage_files'[run[j].job.fileId].coverage_percentage
                  = run[j].currentCoverage]_vars

\* a job completed after all its attempts, its file improved at a coverage
\* below the threshold
C19_Witness ==
  \E j \in JobIds :
    /\ run[j].pc = "cleanupWorkDir" /\ run[j].attempt = maxRetries
    /\ run[j].currentCoverage < coverageThreshold
    /\ improvement_jobs[j].status = "completed"
    /\ coverage_files[run[j].job.fileId].status = "improved"
    /\ coverage_files[run[j].job.fileId].coverage_percentage = run[j].currentCoverage

\* C20 as stated: an attempt after which no test file is changed in the
\* working directory is a failed attempt, also when the target had a test
\* file before the job: the loop retries while attempts remain, and after
\* the last attempt the job fails with the no-test-file error.
C20_Original ==
  [][\A j \in JobIds :
       /\ run[j].pc = "generateTests" /\ run'[j] # run[j]
       /\ run'[j].job.error # Err.ExternalCall
       /\ "test" \notin run'[j].changed
       => IF run[j].attempt < maxRetries THEN Invoked(j)
          ELSE /\ run'[j].job.status = "failed"
               /\ run'[j].job.error = Err.NoTestFile]_vars

\* C21 as stated: when executeJob ends with the job completed, the persisted
\* job is completed with a pull request url and progress 100, and the target
\* CoverageFile is persisted as improved (not pending, not improving).
C21_Original ==
  [][\A j \in JobIds :
       /\ run[j].pc = "createPullRequest" /\ run'[j].pc = "cleanupWorkDir"
       /\ run'[j].job.status = "completed"
       => /\ improvement_jobs'[j].status = "completed"
          /\ improvement_jobs'[j].pr_url # NULL
          /\ improvement_jobs'[j].progress = 100
          /\ coverage_files'[run[j].job.fileId].status = "improved"]_vars

\* C22 as stated: the retry loop is left early, as a success, only when the
\* coverage the target file itself was measured at in this attempt is at
\* least coverageThreshold; a report that does not list the target file
\* never ends the loop early.
C22_Original ==
  [][\A j \in JobIds :
       /\ run[j].pc = "runTestsWithCoverage" /\ run'[j].pc = "commitAndPush"
       /\ run'[j].attempt < maxRetries
       => /\ run'[j].measurement.taken
          /\ run'[j].measurement.attempt = run'[j].attempt
          /\ run'[j].currentCoverage >= coverageThreshold]_vars

\* C23 as stated: a job that ends failed has made no externally visible
\* change: executeJob never fails the job once commitAndPush has resolved
\* for it (the run is suspended at, or returning from, createPullRequest).
C23_Original ==
  [][\A j \in JobIds :
       run[j].job.status # "failed" /\ run'[j].job.status = "failed"
       => run[j].pc # "createPullRequest"]_vars

\* C24 as stated: an analysis job and an improvement job are never both
\* running against the same repository.
C24_Original ==
  \A j \in JobIds : \A a \in AnalysisJobIds :
    improvement_jobs[j].status = "running" /\ analysis_jobs[a].status = "running"
      => improvement_jobs[j].repository_id # analysis_jobs[a].repository_id

\* C25 as stated: while an improvement job is running, its persisted row is
\* at least as fresh as the last phase reported: the persisted progress is at
\* least every progress value the run has passed to the progress callback.
C25_Original ==
  \A j \in JobIds :
    improvement_jobs[j].status = "running" /\ run[j].pc \in ExternalCalls
      => \A i \in DOMAIN run[j].emitted : improvement_jobs[j].progress >= run[j].emitted[i]

\* =========================================================== CoverageParser
\* SpecParser drives the parser and the reconciliation that follows it with
\* coverage files and source trees.  A path is [abs, dir, name, ext]: whether
\* it starts at the root of the file system, its directories, and the file
\* name split before its extension.  Percentages of reports are kept in
\* hundredths (50.00 is 5000), which is what rounding to two decimals leaves.
MaxStatements == 3
MaxReportFiles == 2

Path(abs, dir, name, ext) == [abs |-> abs, dir |-> dir, name |-> name, ext |-> ext]

\* String.prototype.endsWith, for the suffixes the code asks about
endsWith(path, suffix) ==
  \/ path.ext = suffix
  \/ suffix = ".ts" /\ path.ext \in {".test.ts", ".spec.ts", ".d.ts"}

Round_Down(n, d) == n \div d

\* Math.round(n / d) for n >= 0 and d > 0
Round(n, d) == (2 * n + d) \div (2 * d)

RECURSIVE Sum(_)
Sum(seq) == IF seq = <<>> THEN 0 ELSE Head(seq) + Sum(Tail(seq))

SortedBy_InsertionOrder(seq, keys) == seq

\* Array.prototype.sort((a, b) => key(a) - key(b)), which is stable; keys
\* lists the key of every element of seq
SortedBy(seq, keys) ==
  LET pos(i) == Cardinality({j \in DOMAIN seq :
                   \/ keys[j] < keys[i]
                   \/ keys[j] = keys[i] /\ j <= i})
  IN [r \in DOMAIN seq |-> seq[CHOOSE i \in DOMAIN seq : pos(i) = r]]

\* [...new Set(seq)]: the first occurrence of every element, in order
Distinct(seq) ==
  LET keep == {i \in DOMAIN seq : \A j \in 1..(i - 1) : seq[j] # seq[i]}
  IN [r \in 1..Cardinality(keep) |->
        seq[CHOOSE i \in keep : Cardinality({k \in keep : k <= i}) = r]]

\* CoverageParser.normalizePath: relative to projectRoot when the path starts
\* with it, else from the last /src/, /lib/ or /app/ on, else unchanged
normalizePath(projectRoot, filePath) ==
  LET n == Len(projectRoot)
      hits == {i \in DOMAIN filePath.dir : /\ filePath.dir[i] \in {"src", "lib", "app"}
                                           /\ (i > 1 \/ filePath.abs)}
      last == CHOOSE i \in hits : \A k \in hits : k <= i
  IN IF /\ filePath.abs /\ n > 0 /\ Len(filePath.dir) >= n
        /\ SubSeq(filePath.dir, 1, n) = projectRoot
       THEN [filePath EXCEPT !.abs = FALSE, !.dir = SubSeq(@, n + 1, Len(@))]
     ELSE IF hits # {}
       THEN [filePath EXCEPT !.abs = FALSE, !.dir = SubSeq(@, last, Len(@))]
     ELSE filePath

\* the filter of both parsers: TypeScript files that are not test files
Retained(path) ==
  endsWith(path, ".ts") /\ ~endsWith(path, ".spec.ts") /\ ~endsWith(path, ".test.ts")

\* the totals and the sorted list both parsers return
CoverageReport(files) ==
  LET totalCovered == Sum([i \in DOMAIN files |-> files[i].linesCovered])
      totalLines == Sum([i \in DOMAIN files |-> files[i].linesTotal])
  IN [files |-> SortedBy(files, [i \in DOMAIN files |-> files[i].percentage]),
      totalCoverage |-> IF totalLines > 0 THEN Round(10000 * totalCovered, totalLines)
                        ELSE 10000]

\* CoverageParser.parseIstanbulJson.  data is the entries of the JSON object;
\* statementMap and s list the start line and the hit count by statement key
parseIstanbulJson(projectRoot, data) ==
  LET FileCoverage(coverage) ==
        LET statementMap == coverage.statementMap
            statements == coverage.s
            linesTotal == Len(statementMap)
            linesCovered == Cardinality({k \in DOMAIN statements : statements[k] > 0})
            zero(k) == k \in DOMAIN statements /\ statements[k] = 0
            keys == SelectSeq([k \in DOMAIN statementMap |-> k], zero)
            uncoveredLines == [i \in DOMAIN keys |-> statementMap[keys[i]]]
        IN [path |-> normalizePath(projectRoot, coverage.path),
            linesCovered |-> linesCovered,
            linesTotal |-> linesTotal,
            percentage |-> IF linesTotal > 0 THEN Round(10000 * linesCovered, linesTotal)
                           ELSE 10000,
            uncoveredLines |-> SortedBy(Distinct(uncoveredLines), Distinct(uncoveredLines))]
      kept == SelectSeq(data, LAMBDA coverage : Retained(coverage.path))
  IN CoverageReport([i \in DOMAIN kept |-> FileCoverage(kept[i])])

\* CoverageParser.parseLcov, the loop over the lines of the file from line i
\* on; cur holds currentFile, currentCovered, currentTotal, currentUncovered
RECURSIVE parseLcovLines(_, _, _, _, _)
parseLcovLines(projectRoot, content, i, cur, files) ==
  IF i > Len(content) THEN files
  ELSE
    LET line == content[i] IN
    IF line.t = "SF" THEN
      parseLcovLines(projectRoot, content, i + 1,
                     [file |-> <<line.path>>, covered |-> 0, total |-> 0, uncovered |-> <<>>],
                     files)
    ELSE IF line.t = "DA" THEN
      parseLcovLines(projectRoot, content, i + 1,
                     [cur EXCEPT !.total = @ + 1,
                                 !.covered = IF line.count > 0 THEN @ + 1 ELSE @,
                                 !.uncovered = IF line.count > 0 THEN @
                                               ELSE Append(@, line.lineNum)],
                     files)
    ELSE IF cur.file # <<>> THEN
      parseLcovLines(projectRoot, content, i + 1, [cur EXCEPT !.file = <<>>],
        IF Retained(cur.file[1])
          THEN Append(files,
                 [path |-> normalizePath(projectRoot, cur.file[1]),
                  linesCovered |-> cur.covered,
                  linesTotal |-> cur.total,
                  percentage |-> IF cur.total > 0 THEN Round(10000 * cur.covered, cur.total)
                                 ELSE 10000,
                  uncoveredLines |-> SortedBy(cur.uncovered, cur.uncovered)])
          ELSE files)
    ELSE parseLcovLines(projectRoot, content, i + 1, cur, files)

\* CoverageParser.parseLcov
parseLcov(projectRoot, content) ==
  CoverageReport(parseLcovLines(projectRoot, content, 1,
                   [file |-> <<>>, covered |-> 0, total |-> 0, uncovered |-> <<>>], <<>>))

\* isSourceTypeScriptFile
isSourceTypeScriptFile(path) ==
  /\ endsWith(path, ".ts")
  /\ ~(endsWith(path, ".test.ts") \/ endsWith(path, ".spec.ts"))
  /\ ~endsWith(path, ".d.ts")

\* findAllTypeScriptFiles(clonePath): the source files among the files of the
\* clone, relative to it, in directory order
findAllTypeScriptFiles(listing) == SelectSeq(listing, isSourceTypeScriptFile)

Reconcile_KeepsTotal(coverageReport, allTsFiles) ==
  LET coveredPaths == {coverageReport.files[i].path : i \in DOMAIN coverageReport.files}
      missing == SelectSeq(allTsFiles, LAMBDA tsFile : tsFile \notin coveredPaths)
      files == coverageReport.files \o
               [i \in DOMAIN missing |->
                  [path |-> missing[i], linesCovered |-> 0, linesTotal |-> 1,
                   percentage |-> 0, uncoveredLines |-> <<1>>]]
  IN [files |-> SortedBy(files, [i \in DOMAIN files |-> files[i].percentage]),
      totalCoverage |-> coverageReport.totalCoverage]

\* executeJob, the reconciliation: the files of the scan the report does not
\* list are appended at 0%, the total is recomputed and the list sorted again
Reconcile(coverageReport, allTsFiles) ==
  LET coveredPaths == {coverageReport.files[i].path : i \in DOMAIN coverageReport.files}
      missing == SelectSeq(allTsFiles, LAMBDA tsFile : tsFile \notin coveredPaths)
      files == coverageReport.files \o
               [i \in DOMAIN missing |->
                  [path |-> missing[i], linesCovered |-> 0, linesTotal |-> 1,
                   percentage |-> 0, uncoveredLines |-> <<1>>]]
      totalCovered == Sum([i \in DOMAIN files |-> files[i].linesCovered])
      totalLines == Sum([i \in DOMAIN files |-> files[i].linesTotal])
  IN [files |-> SortedBy(files, [i \in DOMAIN files |-> files[i].percentage]),
      totalCoverage |-> IF totalLines > 0 THEN Round(10000 * totalCovered, totalLines) ELSE 0]

\* FilePath.create on a path of a report
FilePath_create(value) ==
  IF ~endsWith(value, ".ts") THEN [err |-> "File path must be a TypeScript file (.ts)"]
  ELSE IF endsWith(value, ".test.ts") \/ endsWith(value, ".spec.ts")
    THEN [err |-> "Cannot improve coverage for test files"]
  ELSE [err |-> NoError, value |-> value]

\* ------------------------------------------------ the calls of SpecParser
ProjectRoots == {<<>>, <<"clone">>, <<"clone", "ui">>}
StatementLines == 1..3
HitCounts == {0, 1}
SeqsUpTo(S, n) == UNION {[1..k -> S] : k \in 0..n}

\* the paths coverage tools report: absolute, inside the clone
ReportedPaths ==
  {Path(TRUE, <<"clone", "src">>, "a", ext) : ext \in {".ts", ".test.ts", ".spec.ts", ".d.ts", ".js"}}
    \cup {Path(TRUE, <<"clone", "src">>, "b", ".ts"),
          Path(TRUE, <<"clone", "ui", "src">>, "a", ".ts")}

\* the files a clone may hold, relative to it, in directory order
Listing ==
  <<Path(FALSE, <<"src">>, "a", ".d.ts"), Path(FALSE, <<"src">>, "a", ".test.ts"),
    Path(FALSE, <<"src">>, "a", ".ts"), Path(FALSE, <<"ui", "src">>, "a", ".ts")>>

\* coverage-final.json: one file in every detail, the file with four
\* statements of the example, or some files of a few kinds
IstanbulInputs ==
  LET one == {<<[path |-> Path(TRUE, <<"clone", "src">>, "a", ".ts"),
                 statementMap |-> m, s |-> c]>> :
                m \in SeqsUpTo(StatementLines, MaxStatements),
                c \in SeqsUpTo(HitCounts, MaxStatements)}
               \cup {<<[path |-> Path(TRUE, <<"clone", "src">>, "a", ".ts"),
                        statementMap |-> <<1, 2, 3, 4>>, s |-> <<1, 1, 0, 0>>]>>}
      kinds == {<<<<1>>, <<1>>>>, <<<<1, 2>>, <<1, 0>>>>, <<<<1, 2, 3>>, <<0, 0, 1>>>>}
      some == {[path |-> p, statementMap |-> k[1], s |-> k[2]] : p \in ReportedPaths, k \in kinds}
  IN one \cup {d \in SeqsUpTo(some, MaxReportFiles) :
                 \A i, j \in DOMAIN d : d[i].path = d[j].path => i = j}

\* lcov.info as its records: the file of SF and the line and count of each DA
LcovInputs ==
  LET da == {[lineNum |-> n, count |-> c] : n \in StatementLines, c \in HitCounts}
      one == {<<[path |-> Path(TRUE, <<"clone", "src">>, "a", ".ts"), da |-> d]>> :
                d \in SeqsUpTo(da, MaxStatements)}
               \cup {<<[path |-> Path(TRUE, <<"clone", "src">>, "a", ".ts"),
                        da |-> <<[lineNum |-> 1, count |-> 1], [lineNum |-> 2, count |-> 1],
                                 [lineNum |-> 3, count |-> 0], [lineNum |-> 4, count |-> 0]>>]>>}
      kinds == {<<[lineNum |-> 1, count |-> 1]>>,
                <<[lineNum |-> 1, count |-> 1], [lineNum |-> 2, count |-> 0]>>,
                <<[lineNum |-> 1, count |-> 0], [lineNum |-> 2, count |-> 0],
                  [lineNum |-> 3, count |-> 1]>>}
      some == {[path |-> p, da |-> k] : p \in ReportedPaths, k \in kinds}
  IN one \cup SeqsUpTo(some, MaxReportFiles)

\* the lines of an lcov.info with these records
RECURSIVE LcovContent(_)
LcovContent(records) ==
  IF records = <<>> THEN <<>>
  ELSE <<[t |-> "SF", path |-> Head(records).path]>>
         \o [i \in DOMAIN Head(records).da |->
               [t |-> "DA", lineNum |-> Head(records).da[i].lineNum,
                count |-> Head(records).da[i].count]]
         \o <<[t |-> "end_of_record"]>>
         \o LcovContent(Tail(records))

ParserUnchanged ==
  UNCHANGED <<ijob, ajob, cfile, improvement_jobs, analysis_jobs, coverage_files, run, arun, resp>>

CallParseIstanbulJson(projectRoot, data) ==
  /\ call = NoCall
  /\ call' = [obj |-> "CoverageParser", op |-> "parseIstanbulJson",
              projectRoot |-> projectRoot, input |-> data,
              report |-> parseIstanbulJson(projectRoot, data)]
  /\ ParserUnchanged

CallParseLcov(projectRoot, records) ==
  /\ call = NoCall
  /\ call' = [obj |-> "CoverageParser", op |-> "parseLcov",
              projectRoot |-> projectRoot, input |-> records,
              report |-> parseLcov(projectRoot, LcovContent(records))]
  /\ ParserUnchanged

\* parseCoverageOutput when the run left neither file
NoCoverageFile ==
  /\ call = NoCall
  /\ call' = [obj |-> "AnalysisJobProcessor", op |-> "parseCoverageOutput",
              projectRoot |-> <<>>, input |-> <<>>,
              report |-> [files |-> <<>>, totalCoverage |-> 0]]
  /\ ParserUnchanged

\* executeJob from the scan of the clone to the files it is about to store
CallReconcile(tree) ==
  /\ call.op \in {"parseIstanbulJson", "parseLcov", "parseCoverageOutput"}
  /\ LET allTsFiles == findAllTypeScriptFiles(SelectSeq(Listing, LAMBDA p : p \in tree))
         report == Reconcile(call.report, allTsFiles)
     IN call' = [obj |-> "AnalysisJobProcessor", op |-> "reconcile",
                 parsed |-> call, listing |-> tree, allTsFiles |-> allTsFiles,
                 report |-> report,
                 stored |-> [i \in DOMAIN report.files |-> FilePath_create(report.files[i].path)],
                 percentages |-> [i \in DOMAIN report.files |->
                                    CoveragePercentage_create(Finite(10 * report.files[i].percentage))]]
  /\ ParserUnchanged

\* one coverage file is parsed in a behaviour
NotParsedYet == call = NoCall

NextParser ==
  \/ NotParsedYet /\ \E projectRoot \in ProjectRoots : \E data \in IstanbulInputs :
       CallParseIstanbulJson(projectRoot, data)
  \/ NotParsedYet /\ \E projectRoot \in ProjectRoots : \E records \in LcovInputs :
       CallParseLcov(projectRoot, records)
  \/ NoCoverageFile
  \/ \E tree \in SUBSET {Listing[i] : i \in DOMAIN Listing} : CallReconcile(tree)

SpecParser == Init /\ [][NextParser]_vars

\* C26: the reconciled report is the union of the parsed report and the scan.
\* Every entry is in it as often as in the parsed report, plus once when it
\* is the entry at 0% (0 of 1 lines, uncovered line 1) of a scanned file the
\* parsed report does not name, and where the union counts a line the total
\* is the sum of the covered lines over the sum of the lines, as a percentage
\* rounded to two decimals.
C26_ReconciliationIsUnion ==
  call.op = "reconcile" =>
    LET parsed == call.parsed.report.files
        out == call.report.files
        parsedPaths == {parsed[i].path : i \in DOMAIN parsed}
        added == {[path |-> call.allTsFiles[i], linesCovered |-> 0, linesTotal |-> 1,
                   percentage |-> 0, uncoveredLines |-> <<1>>] :
                    i \in {k \in DOMAIN call.allTsFiles : call.allTsFiles[k] \notin parsedPaths}}
        entries == {parsed[i] : i \in DOMAIN parsed} \cup {out[i] : i \in DOMAIN out} \cup added
        covered == Sum([i \in DOMAIN out |-> out[i].linesCovered])
        total == Sum([i \in DOMAIN out |-> out[i].linesTotal])
    IN /\ \A e \in entries :
            Cardinality({i \in DOMAIN out : out[i] = e})
              = Cardinality({i \in DOMAIN parsed : parsed[i] = e})
                  + (IF e \in added THEN 1 ELSE 0)
       /\ total > 0 => call.report.totalCoverage = Round(10000 * covered, total)

\* a parsed report of one file at 50% meets a scan that finds a second file
C26_Witness ==
  /\ call.op = "reconcile"
  /\ Len(call.parsed.report.files) = 1
  /\ call.parsed.report.files[1].percentage = 5000
  /\ call.parsed.report.totalCoverage = 5000
  /\ Len(call.report.files) = 2
  /\ call.report.files[1].percentage = 0
  /\ call.report.files[1].uncoveredLines = <<1>>
  /\ call.report.files[2] = call.parsed.report.files[1]
  /\ call.report.totalCoverage = 3333

\* C27: the step that completes an analysis job leaves, for the repository of
\* the job, rows that all have status pending, as many of them as the job's
\* filesFound (so none of an earlier run is left beside the files of this
\* run), and as many of them below the threshold as its filesBelowThreshold.
C27_RowsAreThisRunsFiles ==
  [][\A a \in AnalysisJobIds :
       analysis_jobs[a].status # "completed" /\ analysis_jobs'[a].status = "completed" =>
         LET rows == {f \in FileIds :
                        /\ coverage_files'[f].status # "absent"
                        /\ coverage_files'[f].repository_id = analysis_jobs'[a].repository_id}
         IN /\ \A f \in rows : coverage_files'[f].status = "pending"
            /\ analysis_jobs'[a].files_found = Cardinality(rows)
            /\ analysis_jobs'[a].files_below_threshold =
                 Cardinality({f \in rows :
                                coverage_files'[f].coverage_percentage < coverageThreshold})]_vars

\* an analysis completed with two files, one of them below the threshold, in
\* place of the two rows below the threshold the repository had
C27_Witness ==
  \E a \in AnalysisJobIds :
    /\ analysis_jobs[a].status = "completed"
    /\ analysis_jobs[a].files_found = 2
    /\ analysis_jobs[a].files_below_threshold = 1
    /\ arun[a].pc = "cleanupWorkDir"
    /\ \E f \in FileIds : /\ coverage_files[f].repository_id = analysis_jobs[a].repository_id
                          /\ coverage_files[f].coverage_percentage = 85

\* C28 as stated: every file of a parsed report is a retained file of the
\* input with percentage exactly 100 * hit / total and with the line numbers
\* of its entries never hit as uncoveredLines, ascending and without
\* duplicates, in both formats.
C28_Original ==
  call.op \in {"parseIstanbulJson", "parseLcov"}
    /\ (call.op = "parseIstanbulJson" =>
          \A i \in DOMAIN call.input : Len(call.input[i].s) = Len(call.input[i].statementMap))
  => \A k \in DOMAIN call.report.files :
       LET f == call.report.files[k] IN
       \E i \in DOMAIN call.input :
         LET r == call.input[i]
             counts == IF call.op = "parseLcov" THEN [n \in DOMAIN r.da |-> r.da[n].count]
                       ELSE r.s
             lines == IF call.op = "parseLcov" THEN [n \in DOMAIN r.da |-> r.da[n].lineNum]
                      ELSE r.statementMap
             hit == {n \in DOMAIN counts : counts[n] > 0}
         IN /\ Retained(r.path)
            /\ f.path = normalizePath(call.projectRoot, r.path)
            /\ Len(counts) > 0 => f.percentage * Len(counts) = 10000 * Cardinality(hit)
            /\ \A a, b \in DOMAIN f.uncoveredLines :
                 a < b => f.uncoveredLines[a] < f.uncoveredLines[b]
            /\ {f.uncoveredLines[a] : a \in DOMAIN f.uncoveredLines}
                 = {lines[n] : n \in {m \in DOMAIN counts : counts[m] = 0}}

\* C28: every file of a parsed report is a retained file of the input, with
\* as many covered lines as entries hit and as many lines as entries; its
\* percentage is 100 * hit / total rounded to the nearest hundredth, and 100
\* without entries; its uncoveredLines are the line numbers of the entries
\* never hit in ascending order, each once for Istanbul JSON and once per DA
\* line for LCOV.
C28_Amended ==
  call.op \in {"parseIstanbulJson", "parseLcov"}
    /\ (call.op = "parseIstanbulJson" =>
          \A i \in DOMAIN call.input : Len(call.input[i].s) = Len(call.input[i].statementMap))
  => \A k \in DOMAIN call.report.files :
       LET f == call.report.files[k] IN
       \E i \in DOMAIN call.input :
         LET r == call.input[i]
             counts == IF call.op = "parseLcov" THEN [n \in DOMAIN r.da |-> r.da[n].count]
                       ELSE r.s
             lines == IF call.op = "parseLcov" THEN [n \in DOMAIN r.da |-> r.da[n].lineNum]
                      ELSE r.statementMap
             hit == {n \in DOMAIN counts : counts[n] > 0}
             zero == {n \in DOMAIN counts : counts[n] = 0}
             total == Len(counts)
             off == 2 * (10000 * Cardinality(hit) - f.percentage * total)
         IN /\ Retained(r.path)
            /\ f.path = normalizePath(call.projectRoot, r.path)
            /\ f.linesTotal = total /\ f.linesCovered = Cardinality(hit)
            /\ IF total > 0 THEN -total <= off /\ off < total ELSE f.percentage = 10000
            /\ \A a, b \in DOMAIN f.uncoveredLines :
                 a < b => f.uncoveredLines[a] <= f.uncoveredLines[b]
            /\ \A line \in StatementLines \cup {4} :
                 Cardinality({a \in DOMAIN f.uncoveredLines : f.uncoveredLines[a] = line})
                   = IF call.op = "parseLcov"
                       THEN Cardinality({n \in zero : lines[n] = line})
                       ELSE IF \E n \in zero : lines[n] = line THEN 1 ELSE 0

\* the example: hit counts 1, 1, 0, 0 at the lines 1 to 4 give 50.00 and 3, 4
C28_Witness ==
  /\ call.op = "parseIstanbulJson"
  /\ Len(call.input) = 1
  /\ call.input[1].s = <<1, 1, 0, 0>>
  /\ call.input[1].statementMap = <<1, 2, 3, 4>>
  /\ call.report.files[1].percentage = 5000
  /\ call.report.files[1].uncoveredLines = <<3, 4>>

\* C29: the files of the report parseIstanbulJson returns, of the report
\* parseLcov returns and of the reconciled report are in ascending order of
\* percentage.
C29_SortedByPercentage ==
  call.op \in {"parseIstanbulJson", "parseLcov", "reconcile"} =>
    \A i, j \in DOMAIN call.report.files :
      i < j => call.report.files[i].percentage <= call.report.files[j].percentage

\* a coverage file that lists a file at 100% before one at 33.33% was parsed
\* and a scanned file was added: the reconciled list starts with the added
\* file and ends with the file listed first
C29_Witness ==
  /\ call.op = "reconcile"
  /\ call.parsed.op \in {"parseIstanbulJson", "parseLcov"}
  /\ Len(call.parsed.input) = 2
  /\ Len(call.parsed.report.files) = 2
  /\ call.parsed.report.files[1].path = normalizePath(call.parsed.projectRoot, call.parsed.input[2].path)
  /\ call.parsed.report.files[1].percentage = 3333
  /\ call.parsed.report.files[2].percentage = 10000
  /\ Len(call.report.files) = 3
  /\ call.report.files[1].percentage = 0
  /\ call.report.files[1].path \notin {call.parsed.report.files[i].path : i \in 1..2}
  /\ call.report.files[3] = call.parsed.report.files[2]

\* C30: every path of a parsed report, of a reconciled report and of a
\* CoverageFile made from one ends in .ts and in none of .test.ts, .spec.ts
\* and .d.ts.
C30_Original ==
  call.op \in {"parseIstanbulJson", "parseLcov", "reconcile"} =>
    LET Supported(path) ==
          /\ endsWith(path, ".ts")
          /\ ~endsWith(path, ".test.ts") /\ ~endsWith(path, ".spec.ts")
          /\ ~endsWith(path, ".d.ts")
    IN /\ \A i \in DOMAIN call.report.files : Supported(call.report.files[i].path)
       /\ call.op = "reconcile" =>
            \A i \in DOMAIN call.stored :
              call.stored[i].err = NoError => Supported(call.stored[i].value)

\* C31: CoveragePercentage.create succeeds exactly for the finite numbers
\* from 0 to 100; the object it makes holds the hundredth nearest to the
\* number, which is itself from 0 to 100; for a number below 0, above 100,
\* infinite or NaN it throws and makes no object.
C31_CreateValidatesAndRounds ==
  call.obj = "CoveragePercentage" =>
    LET valid == call.p.kind = "finite" /\ 0 <= call.p.milli /\ call.p.milli <= 100000
        off == 2 * (call.p.milli - call.ret.value.milli)
    IN /\ call.ret.created <=> valid
       /\ call.ret.err = NoError <=> valid
       /\ valid => /\ call.ret.value.kind = "finite"
                   /\ call.ret.value.milli % 10 = 0
                   /\ -10 <= off /\ off < 10
                   /\ 0 <= call.ret.value.milli /\ call.ret.value.milli <= 100000

\* 75.555 is stored as 75.56
C31_Witness ==
  /\ call.obj = "CoveragePercentage"
  /\ call.p = Finite(75555)
  /\ call.ret.created
  /\ call.ret.value = Finite(75560)

\* C32: the job that findById returns after a save has the status, the
\* progress, the PR URL and the error of the job that was saved, whether the
\* save inserted the row or updated it.
C32_Original ==
  call.obj = "JobRepository" =>
    /\ call.found.status = call.saved.status
    /\ call.found.progress = call.saved.progress
    /\ call.found.prUrl = call.saved.prUrl
    /\ call.found.error = call.saved.error
    /\ call.found.repositoryId = call.saved.repositoryId
    /\ call.found.fileId = call.saved.fileId

\* C33: when the coverage file lists files of the project directory, no
\* scanned source file that the parsed report covers is added once more at 0%:
\* a scanned file whose absolute path the coverage file lists and the parser
\* retains is among the paths of the parsed report.
C33_Original ==
  call.op = "reconcile" /\ call.parsed.op \in {"parseIstanbulJson", "parseLcov"}
    /\ call.parsed.projectRoot # <<>>
    /\ (\A i \in DOMAIN call.parsed.input :
          SubSeq(call.parsed.input[i].path.dir, 1, Len(call.parsed.projectRoot))
            = call.parsed.projectRoot)
  => \A k \in DOMAIN call.allTsFiles : \A i \in DOMAIN call.parsed.input :
       LET tsFile == call.allTsFiles[k]
           listed == call.parsed.input[i].path
       IN Retained(listed)
            /\ listed = Path(TRUE, <<"clone">> \o tsFile.dir, tsFile.name, tsFile.ext)
          => tsFile \in {call.parsed.report.files[n].path :
                           n \in DOMAIN call.parsed.report.files}

\* C34: every file of a parsed report has from 0 to linesTotal covered lines
\* and a percentage from 0 to 100, and CoveragePercentage.create accepts the
\* percentage of every file of the reconciled report.
C34_Original ==
  /\ call.op \in {"parseIstanbulJson", "parseLcov"} =>
       \A i \in DOMAIN call.report.files :
         /\ 0 <= call.report.files[i].linesCovered
         /\ call.report.files[i].linesCovered <= call.report.files[i].linesTotal
         /\ 0 <= call.report.files[i].percentage
         /\ call.report.files[i].percentage <= 10000
  /\ call.op = "reconcile" =>
       \A i \in DOMAIN call.percentages : call.percentages[i].created

\* ---------------------------------------------------------------------- C35
\* C35 (as stated; refuted): a tick of the orchestrator is a no-op only when
\* no pending job is eligible. Whenever some pending improvement job belongs
\* to a repository without a running improvement job, processNextJob starts a
\* job, also when the oldest pending job waits behind a running job of its
\* own repository.
EligiblePending ==
  {j \in JobIds :
     /\ improvement_jobs[j].status = "pending"
     /\ \A k \in JobIds :
          improvement_jobs[k].status = "running"
            => improvement_jobs[k].repository_id # improvement_jobs[j].repository_id}

C35_Original ==
  [][(EligiblePending # {} /\ processNextJob) => resp'.id # UnknownId]_vars

\* ---------------------------------------------------------------------- C36
\* The timers keep firing (core.module.ts, setInterval) and every external
\* call of a run in flight returns or throws: weak fairness of each tick and
\* of the next step of each run.  Requests (start, cancel, analyze) are under
\* no obligation.
RunStep(id) ==
  \/ ExternalCallThrows(id)
  \/ CloneReturns(id)
  \/ InstallDependenciesReturns(id, {})
  \/ \E sourceExists \in BOOLEAN : CreateBranchReturns(id, sourceExists, FALSE, GitWorks)
  \/ \E written \in AiWrites : \E valid \in BOOLEAN :
       GenerateTestsReturns(id, written, valid, GitWorks)
  \/ RunTestsWithCoverageReturns(id, GitWorks)
  \/ CommitAndPushReturns(id)
  \/ CreatePullRequestReturns(id)
  \/ CleanupWorkDirReturns(id)

AnalysisRunStep(id) ==
  \/ AnalysisExternalCallThrows(id)
  \/ AnalysisCloneReturns(id)
  \/ AnalysisInstallDependenciesReturns(id)
  \/ AnalysisRunTestsWithCoverageReturns(id)
  \/ AnalysisCleanupWorkDirReturns(id)

Fairness ==
  /\ WF_vars(processNextJob)
  /\ WF_vars(AnalysisJobProcessor_processNextJob)
  /\ \A id \in FirstJobIds : WF_vars(RunStep(id))
  /\ \A id \in AnalysisJobIds : WF_vars(AnalysisRunStep(id))

FairSystem == SpecSystem /\ Fairness

Ended == {"completed", "failed"}

\* C36 (as stated; refuted): under these fairness conditions every improvement
\* job and every analysis job persisted as pending is eventually persisted as
\* completed or failed.
C36_Original ==
  /\ \A j \in JobIds :
       (improvement_jobs[j].status = "pending") ~> (improvement_jobs[j].status \in Ended)
  /\ \A a \in AnalysisJobIds :
       (analysis_jobs[a].status = "pending") ~> (analysis_jobs[a].status \in Ended)

\* ============================================================ polling loops
\* JobOrchestrator.startProcessing / stopProcessing and the same two methods
\* of AnalysisJobProcessor.  One instance of each service; `call` holds, per
\* instance, the flag isProcessing and the loops of startProcessing that have
\* not returned: those awaiting processNextJob and those awaiting sleep.  The
\* awaited processNextJob is the action of that name with the run it starts,
\* seen here from its call to its settling.
MaxLoops == 3

Services == {"JobOrchestrator", "AnalysisJobProcessor"}

NotConstructed == [isProcessing |-> FALSE, calling |-> 0, sleeping |-> 0]

Polling == IF call = NoCall THEN [s \in Services |-> NotConstructed] ELSE call.services

Polled(service, state) ==
  [obj |-> "polling", services |-> [Polling EXCEPT ![service] = state]]

PollingUnchanged == UNCHANGED <<ijob, ajob, cfile>> /\ UNCHANGED systemVars

\* startProcessing(): returns at once while the flag is set; otherwise sets it
\* and enters the loop, which calls processNextJob
startProcessing(service) ==
  LET p == Polling[service] IN
  /\ p.calling + p.sleeping < MaxLoops
  /\ PollingUnchanged
  /\ call' = Polled(service, IF p.isProcessing THEN p
                             ELSE [p EXCEPT !.isProcessing = TRUE, !.calling = @ + 1])

\* stopProcessing()
stopProcessing(service) ==
  /\ PollingUnchanged
  /\ call' = Polled(service, [Polling[service] EXCEPT !.isProcessing = FALSE])

\* processNextJob resolves: the loop sleeps
ProcessNextJobReturns(service) ==
  LET p == Polling[service] IN
  /\ p.calling > 0
  /\ PollingUnchanged
  /\ call' = Polled(service, [p EXCEPT !.calling = @ - 1, !.sleeping = @ + 1])

\* processNextJob rejects: startProcessing rejects with it, the flag stays
ProcessNextJobThrows(service) ==
  LET p == Polling[service] IN
  /\ p.calling > 0
  /\ PollingUnchanged
  /\ call' = Polled(service, [p EXCEPT !.calling = @ - 1])

\* sleep resolves: the loop tests the flag and calls processNextJob or returns
SleepReturns(service) ==
  LET p == Polling[service] IN
  /\ p.sleeping > 0
  /\ PollingUnchanged
  /\ call' = Polled(service, IF p.isProcessing
                             THEN [p EXCEPT !.sleeping = @ - 1, !.calling = @ + 1]
                             ELSE [p EXCEPT !.sleeping = @ - 1])

NextPolling ==
  \/ \E service \in Services : startProcessing(service)
  \/ \E service \in Services : stopProcessing(service)
  \/ \E service \in Services : ProcessNextJobReturns(service)
  \/ \E service \in Services : ProcessNextJobThrows(service)
  \/ \E service \in Services : SleepReturns(service)

SpecPolling == Init /\ [][NextPolling]_vars

\* ---------------------------------------------------------------------- C37
\* C37 (as stated; refuted): whatever startProcessing() and stopProcessing()
\* calls were made, an instance whose flag is set has at most one loop that
\* has not returned; stopProcessing() followed by startProcessing() while the
\* earlier loop sleeps or awaits processNextJob does not leave two loops.
C37_Original ==
  \A service \in Services :
    Polling[service].isProcessing
      => Polling[service].calling + Polling[service].sleeping <= 1

\* ---------------------------------------------------------------------- C38
\* C38 (as stated; refuted): StartImprovementJob is all-or-nothing. A request
\* answered with an error leaves improvement_jobs and coverage_files as they
\* were, and so every pending improvement job targets a file whose status is
\* improving.
PendingJobsTargetImprovingFiles ==
  \A j \in JobIds :
    improvement_jobs[j].status = "pending"
      => coverage_files[improvement_jobs[j].file_id].status = "improving"

C38_Original ==
  [][(\E repositoryId \in Repos : \E fileId \in FileIds \cup {UnknownId} :
        StartImprovementJob(repositoryId, fileId))
     => /\ resp'.err # NoError => UNCHANGED <<improvement_jobs, coverage_files>>
        /\ PendingJobsTargetImprovingFiles']_vars

\* ---------------------------------------------------------------------- C39
\* C39 (as stated; refuted): a failed analysis job leaves the stored coverage
\* of its repository as it was.  Only the storing step of executeJob writes
\* coverage_files, so: a step that persists a running analysis job as failed
\* leaves every row of the job's repository in place and adds none.
C39_Original ==
  [][\A a \in AnalysisJobIds :
       (analysis_jobs[a].status = "running" /\ analysis_jobs'[a].status = "failed")
         => \A f \in FileIds :
              (\/ coverage_files[f].repository_id = analysis_jobs[a].repository_id
               \/ coverage_files'[f].repository_id = analysis_jobs[a].repository_id)
                => coverage_files'[f] = coverage_files[f]]_vars

\* ---------------------------------------------------------------------- C40
\* C40 (as stated; refuted): in an execution of executeJob that does not fail
\* the progress values passed to the progress callback are each in 0..100 and
\* never fall, whatever maxRetries is configured and however many attempts
\* are used.
C40_Original ==
  \A j \in JobIds :
    (run[j].pc = "cleanupWorkDir" /\ run[j].result = "returned"
       /\ run[j].job.status = "completed")
      => run[j].inOrder

====
